---- MODULE Spec2Model ----
(***************************************************************************)
(* A model of demjson 1.7 (src/demjson.py): the JSON class (strictness     *)
(* controller, hook registry, recursive-descent decoder, encoder) and the  *)
(* top-level decode() function.                                            *)
(*                                                                         *)
(* Conventions.  A character is its code point (ord(c) = c, unichr(n) = n, *)
(* a wide build), a text is a sequence of code points, and indices into a  *)
(* text are 0-based as in the source: At(s, i) is s[i], Slice(s, a, b) is  *)
(* s[a:b].  A function that can raise returns a record whose field st     *)
(* names the exception class ("ok" when it returns normally).              *)
(***************************************************************************)
EXTENDS Integers, Sequences, FiniteSets, TLC

VARIABLES
    allow,      \* the instance's _allow_<behavior> attributes
    hook,       \* the instance's <hookname>_hook attributes
    compactly,  \* the instance's _encode_compactly attribute
    nconf,      \* how many configuration calls the instance has taken
    ncall,      \* how many decode and encode calls the instance has taken
    op,         \* the last operation called
    arg,        \* the arguments of that call
    res         \* what that call returned or raised

vars == <<allow, hook, compactly, nconf, ncall, op, arg, res>>

----------------------------------------------------------------------------
(* Characters and texts *)

CharCode ==
    ("\"" :> 34) @@ ("'" :> 39) @@ ("\\" :> 92) @@ ("/" :> 47) @@ ("*" :> 42) @@
    ("[" :> 91) @@ ("]" :> 93) @@ ("{" :> 123) @@ ("}" :> 125) @@
    ("," :> 44) @@ (":" :> 58) @@ ("." :> 46) @@ ("+" :> 43) @@ ("-" :> 45) @@
    ("_" :> 95) @@ ("$" :> 36) @@ (" " :> 32) @@
    ("0" :> 48) @@ ("1" :> 49) @@ ("2" :> 50) @@ ("3" :> 51) @@ ("4" :> 52) @@
    ("5" :> 53) @@ ("6" :> 54) @@ ("7" :> 55) @@ ("8" :> 56) @@ ("9" :> 57) @@
    ("A" :> 65) @@ ("B" :> 66) @@ ("C" :> 67) @@ ("D" :> 68) @@ ("E" :> 69) @@
    ("F" :> 70) @@ ("I" :> 73) @@ ("N" :> 78) @@ ("X" :> 88) @@ ("Z" :> 90) @@
    ("a" :> 97) @@ ("b" :> 98) @@ ("c" :> 99) @@ ("d" :> 100) @@ ("e" :> 101) @@
    ("f" :> 102) @@ ("g" :> 103) @@ ("h" :> 104) @@ ("i" :> 105) @@ ("l" :> 108) @@
    ("n" :> 110) @@ ("r" :> 114) @@ ("s" :> 115) @@ ("t" :> 116) @@ ("u" :> 117) @@
    ("v" :> 118) @@ ("x" :> 120) @@ ("y" :> 121) @@ ("z" :> 122) @@
    ("TAB" :> 9) @@ ("LF" :> 10) @@ ("VT" :> 11) @@ ("FF" :> 12) @@ ("CR" :> 13) @@
    ("BS" :> 8) @@ ("NUL" :> 0) @@ ("SOH" :> 1) @@ ("DEL" :> 127) @@
    ("NBSP" :> 160) @@ ("SHY" :> 173) @@ ("e'" :> 233) @@
    ("ZWSP" :> 8203) @@ ("LS" :> 8232) @@ ("PS" :> 8233) @@
    ("HIGH" :> 55357) @@ ("LOW" :> 56832) @@ ("BOM" :> 65279) @@
    ("SMILE" :> 128512)

\* ord() of a character written as a one-character string (or by its name).
O(c) == CharCode[c]

\* A text from its characters.
T(cs) == [k \in 1..Len(cs) |-> O(cs[k])]

\* The value val under the name the operator F gives it
Bind(val, F(_)) == F(val)

Min(a, b) == IF a < b THEN a ELSE b
Max(a, b) == IF a > b THEN a ELSE b

\* s[i] for 0 <= i < len(s)
At(s, i) == s[i + 1]

\* s[a:b] for 0 <= a
Slice(s, a, b) == SubSeq(s, a + 1, Min(b, Len(s)))

\* s[a:]
From(s, a) == SubSeq(s, a + 1, Len(s))

\* c in 'chars'
In(c, cs) == \E k \in 1..Len(cs) : O(cs[k]) = c

RECURSIVE Pow(_, _)
Pow(b, n) == IF n = 0 THEN 1 ELSE b * Pow(b, n - 1)

\* unicodedata.category(c), for the categories the source tests
\* (Unicode 5.2 ranges of the Basic Multilingual Plane).
category(c) ==
    IF c <= 31 \/ (c >= 127 /\ c <= 159) THEN "Cc"
    ELSE IF c = 173 \/ (c >= 1536 /\ c <= 1539) \/ c = 1757 \/ c = 1807
            \/ (c >= 6068 /\ c <= 6069)
            \/ (c >= 8203 /\ c <= 8207) \/ (c >= 8234 /\ c <= 8238)
            \/ (c >= 8288 /\ c <= 8292) \/ (c >= 8298 /\ c <= 8303)
            \/ c = 65279 \/ (c >= 65529 /\ c <= 65531) THEN "Cf"
    ELSE IF c = 32 \/ c = 160 \/ c = 5760 \/ c = 6158
            \/ (c >= 8192 /\ c <= 8202) \/ c = 8239 \/ c = 8287 \/ c = 12288 THEN "Zs"
    ELSE IF c = 8232 THEN "Zl"
    ELSE IF c = 8233 THEN "Zp"
    ELSE IF c >= 55296 /\ c <= 57343 THEN "Cs"
    ELSE "other"

\* c.isdigit(), c.isalpha(), c.isalnum() on the characters of CharCode
isdigit(c) == c >= 48 /\ c <= 57
isalpha(c) == (c >= 65 /\ c <= 90) \/ (c >= 97 /\ c <= 122) \/ c = 233
isalnum(c) == isdigit(c) \/ isalpha(c)

----------------------------------------------------------------------------
(* The value tree.  Python objects are tagged records; the tag is the type. *)

VNull == [t |-> "null"]                      \* None
VUndef == [t |-> "undefined"]                \* demjson.undefined
VBool(b) == [t |-> "bool", b |-> b]
VInt(n) == [t |-> "int", n |-> n]            \* int or long
\* A finite float m * 10^e with m # 0 not a multiple of 10, or zero (m = 0, e = 0).
VFloat(m, e) == [t |-> "float", k |-> "fin", m |-> m, e |-> e]
VNegZero == [t |-> "float", k |-> "negzero", m |-> 0, e |-> 0]   \* -0.0
VNaN == [t |-> "float", k |-> "nan", m |-> 0, e |-> 0]           \* demjson.nan
VInf == [t |-> "float", k |-> "inf", m |-> 0, e |-> 0]           \* demjson.inf
VNegInf == [t |-> "float", k |-> "neginf", m |-> 0, e |-> 0]     \* demjson.neginf
VDecimal(m, e) == [t |-> "decimal", m |-> m, e |-> e]            \* decimal.Decimal
VStr(s) == [t |-> "str", s |-> s]            \* str or unicode
VList(xs) == [t |-> "list", items |-> xs]
\* A dict, as the sequence of its <<key, value>> items in insertion order.
VDict(ps) == [t |-> "dict", pairs |-> ps]
\* What a user's hook function made of its argument.
VHooked(h, a) == [t |-> "hooked", h |-> h, of |-> a]
\* An object with a json_equivalent() method that returns v.
VEquivalent(v) == [t |-> "equivalent", of |-> v]
\* A reference to the container `up` levels above the place it stands at
\* (0: the container that holds it): how a cyclic object graph is written.
VRef(up) == [t |-> "ref", up |-> up]

RECURSIVE Norm10(_, _)
\* m * 10^e with the trailing zeros of m moved into e
Norm10(m, e) ==
    IF m = 0 THEN <<0, 0>>
    ELSE IF m % 10 = 0 THEN Norm10(m \div 10, e + 1)
    ELSE <<m, e>>

\* Python's == on two numbers (int, float): equal numeric value.
NumEq(a, b) ==
    LET fa == IF a.t = "int" THEN Norm10(a.n, 0) ELSE <<a.m, a.e>>
        fb == IF b.t = "int" THEN Norm10(b.n, 0) ELSE <<b.m, b.e>>
        ka == IF a.t = "int" \/ a.k = "negzero" THEN "fin" ELSE a.k
        kb == IF b.t = "int" \/ b.k = "negzero" THEN "fin" ELSE b.k
    IN  ka = kb /\ fa = fb

IsNum(v) == v.t \in {"int", "float"}

\* Whether two dict keys are the same key (equal hash and ==).
KeyEq(a, b) ==
    IF IsNum(a) /\ IsNum(b) THEN NumEq(a, b) ELSE a = b

RECURSIVE DictSet(_, _, _)
\* obj[key] = value on the items ps of a dict: an existing key keeps its
\* place and its key object and takes the new value.
DictSet(ps, key, value) ==
    IF ps = <<>> THEN <<<<key, value>>>>
    ELSE IF KeyEq(Head(ps)[1], key) THEN <<<<Head(ps)[1], value>>>> \o Tail(ps)
    ELSE <<Head(ps)>> \o DictSet(Tail(ps), key, value)

RECURSIVE DictGet(_, _)
DictGet(ps, key) ==
    IF KeyEq(Head(ps)[1], key) THEN Head(ps)[2] ELSE DictGet(Tail(ps), key)

DictHas(ps, key) == \E k \in 1..Len(ps) : KeyEq(ps[k][1], key)

RECURSIVE ValEq(_, _)
\* Equality of two values of the tree: dicts are equal as mappings, whatever
\* the order of their items; anything else is equal when it is the same.
ValEq(a, b) ==
    IF a.t # b.t THEN FALSE
    ELSE IF a.t = "list" THEN
        /\ Len(a.items) = Len(b.items)
        /\ \A k \in 1..Len(a.items) : ValEq(a.items[k], b.items[k])
    ELSE IF a.t = "dict" THEN
        /\ Len(a.pairs) = Len(b.pairs)
        /\ \A k \in 1..Len(a.pairs) :
              /\ DictHas(b.pairs, a.pairs[k][1])
              /\ ValEq(a.pairs[k][2], DictGet(b.pairs, a.pairs[k][1]))
    ELSE a = b

----------------------------------------------------------------------------
(* The strictness controller *)

Behaviors ==
    {"any_type_at_start", "all_numeric_signs", "comments", "control_char_in_string",
     "hex_numbers", "initial_decimal_point", "js_string_escapes", "non_numbers",
     "nonescape_characters", "nonstring_keys", "omitted_array_elements",
     "single_quoted_strings", "trailing_comma_in_literal", "undefined_values",
     "unicode_format_control_chars", "unicode_whitespace", "octal_numbers"}

\* _set_strictness as it was before RFC 7158: any_type_at_start follows the flag.
_set_strictness_rfc4627(strict) ==
    [b \in Behaviors |->
        IF b = "octal_numbers" THEN FALSE ELSE ~strict]

\* The _allow_* attributes that _set_strictness(strict) assigns.
_set_strictness(strict) ==
    [b \in Behaviors |->
        IF b = "any_type_at_start" THEN TRUE
        ELSE IF b = "octal_numbers" THEN FALSE
        ELSE ~strict]

\* The allowed_behaviors property
allowed_behaviors(al) == {b \in DOMAIN al : al[b]}

\* The prevented_behaviors property
prevented_behaviors(al) == {b \in DOMAIN al : ~al[b]}

\* The behaviors property
behaviors(al) == DOMAIN al

\* The strict property's getter
_is_strict(al) == allowed_behaviors(al) = {}

----------------------------------------------------------------------------
(* The hook registry *)

all_hook_names ==
    {"decode_number", "decode_float", "decode_object", "decode_array", "decode_string",
     "encode_value", "encode_dict", "encode_dict_key", "encode_sequence", "encode_bytes",
     "encode_default"}

\* What a hook attribute can hold: None, or a callable.  The callables of the
\* model: "skip" raises JSONSkipHook; "raise" raises some other exception;
\* "wrap" returns a new object made of its argument; "same" returns its
\* argument itself; "tostr" returns the string "h"; "tolist" returns a list
\* holding the string "h"; "flip" returns the number 1 for a string and the
\* string "h" for anything else; "suffix" returns a string with "h" added at
\* its end and raises JSONSkipHook for anything else.
Callables == {"skip", "raise", "wrap", "same", "tostr", "tolist", "flip", "suffix"}
NoneHook == "None"
NoHooks == [h \in all_hook_names |-> NoneHook]

\* has_hook(hook_name)
has_hook(hk, hook_name) ==
    IF hook_name \notin all_hook_names THEN FALSE ELSE hk[hook_name] # NoneHook

\* The class call_hook wraps a hook's exception in.
HookErrorClass(hook_name) ==
    IF hook_name \in {"encode_value", "encode_dict", "encode_dict_key", "encode_sequence",
                      "encode_bytes", "encode_default"}
    THEN "JSONEncodeHookError" ELSE "JSONDecodeHookError"

\* call_hook(hook_name, a): [st, val].  Calling None raises TypeError inside
\* the try block, which is wrapped like any other exception of a hook.
call_hook(hk, hook_name, a) ==
    IF hook_name \notin all_hook_names THEN [st |-> "AttributeError", val |-> VNull]
    ELSE LET f == hk[hook_name] IN
         IF f = "skip" THEN [st |-> "JSONSkipHook", val |-> VNull]
         ELSE IF f = "wrap" THEN [st |-> "ok", val |-> VHooked(hook_name, a)]
         ELSE IF f = "same" THEN [st |-> "ok", val |-> a]
         ELSE IF f = "tostr" THEN [st |-> "ok", val |-> VStr(<<O("h")>>)]
         ELSE IF f = "tolist" THEN [st |-> "ok", val |-> VList(<<VStr(<<O("h")>>)>>)]
         ELSE IF f = "flip" THEN
             [st |-> "ok", val |-> IF a.t = "str" THEN VInt(1) ELSE VStr(<<O("h")>>)]
         ELSE IF f = "suffix" THEN
             IF a.t = "str" THEN [st |-> "ok", val |-> VStr(Append(a.s, O("h")))]
             ELSE [st |-> "JSONSkipHook", val |-> VNull]
         ELSE [st |-> HookErrorClass(hook_name), val |-> VNull]

\* One entry of the record the model keeps of the hook calls of a run.
HookCall(hook_name, a) == [h |-> hook_name, a |-> a]

\* What a hook call r = [st, val] made, with the record of the calls so far
Logged(r, log) == [st |-> r.st, val |-> r.val, log |-> log]

----------------------------------------------------------------------------
(* Helpers of the decoder *)

\* What a decoding function returns: the value, the index of the next
\* unparsed character and the hook calls it made; or the exception it raised.
Ok(v, i, log) == [st |-> "ok", val |-> v, i |-> i, log |-> log]
Raise(cls, log) == [st |-> cls, val |-> VNull, i |-> 0, log |-> log]

hexdigits == <<"0", "1", "2", "3", "4", "5", "6", "7", "8", "9",
               "A", "B", "C", "D", "E", "F", "a", "b", "c", "d", "e", "f">>
octaldigits == <<"0", "1", "2", "3", "4", "5", "6", "7">>

\* The digit value decode_hex gives a character, -1 when it gives none.
HexDigitValue(c) ==
    IF c >= O("0") /\ c <= O("9") THEN c - O("0")
    ELSE IF c >= O("a") /\ c <= O("f") THEN c - O("a") + 10
    ELSE IF c >= O("A") /\ c <= O("F") THEN c - O("A") + 10
    ELSE -1

RECURSIVE decode_hex_from(_, _)
decode_hex_from(hexstring, n) ==
    IF hexstring = <<>> THEN [st |-> "ok", n |-> n]
    ELSE IF HexDigitValue(Head(hexstring)) < 0 THEN [st |-> "ValueError", n |-> 0]
    ELSE decode_hex_from(Tail(hexstring), (n * 16) + HexDigitValue(Head(hexstring)))

\* helpers.decode_hex(hexstring): [st, n]
decode_hex(hexstring) == decode_hex_from(hexstring, 0)

RECURSIVE decode_octal_from(_, _)
decode_octal_from(octalstring, n) ==
    IF octalstring = <<>> THEN [st |-> "ok", n |-> n]
    ELSE IF ~(Head(octalstring) >= O("0") /\ Head(octalstring) <= O("7"))
         THEN [st |-> "ValueError", n |-> 0]
    ELSE decode_octal_from(Tail(octalstring), (n * 8) + (Head(octalstring) - O("0")))

\* helpers.decode_octal(octalstring): [st, n]
decode_octal(octalstring) == decode_octal_from(octalstring, 0)

\* helpers.isstringtype(obj)
isstringtype(obj) == obj.t = "str"

\* helpers.isnumbertype(obj)
isnumbertype(obj) == obj.t \in {"int", "float"}

\* helpers.strip_format_control_chars(txt)
strip_format_control_chars(txt) == SelectSeq(txt, LAMBDA c : category(c) # "Cf")

\* JSON.isws(c)
isws(al, c) ==
    IF ~al["unicode_whitespace"] THEN In(c, <<" ", "TAB", "LF", "CR">>)
    ELSE IF In(c, <<" ", "TAB", "LF", "CR", "FF", "VT">>) THEN TRUE
    ELSE category(c) = "Zs"

\* JSON.islineterm(c)
islineterm(c) ==
    IF c = O("CR") \/ c = O("LF") THEN TRUE
    ELSE IF c = O("LS") \/ c = O("PS") THEN TRUE
    ELSE FALSE

\* helpers.unsafe_string_chars, as built by _make_unsafe_string_chars():
\* the characters below U+0100 that are '"', '\' or of category Cc, Cf, Zl, Zp.
unsafe_string_chars(c) ==
    c < 256 /\ (c = O("\"") \/ c = O("\\") \/ category(c) \in {"Cc", "Cf", "Zl", "Zp"})

----------------------------------------------------------------------------
(* Python's numeric conversions *)

RECURSIVE DigitsValue(_, _)
\* The value of a run of decimal digits, most significant first.
DigitsValue(ds, n) ==
    IF ds = <<>> THEN n ELSE DigitsValue(Tail(ds), n * 10 + (Head(ds) - O("0")))

AllDigits(ds) == \A k \in 1..Len(ds) : isdigit(ds[k])

\* int(x) of a text: an optional sign and at least one digit. [st, n]
PyInt(x) ==
    LET signed == x # <<>> /\ In(Head(x), <<"+", "-">>)
        ds == IF signed THEN Tail(x) ELSE x
    IN  IF ds = <<>> \/ ~AllDigits(ds) THEN [st |-> "ValueError", n |-> 0]
        ELSE [st |-> "ok",
              n |-> IF signed /\ Head(x) = O("-") THEN 0 - DigitsValue(ds, 0)
                    ELSE DigitsValue(ds, 0)]

\* The index of the first character of x that is in cs, -1 when there is none.
FindFirst(x, cs) ==
    IF \E k \in 1..Len(x) : In(x[k], cs)
    THEN (CHOOSE k \in 1..Len(x) : In(x[k], cs) /\ \A h \in 1..(k - 1) : ~In(x[h], cs)) - 1
    ELSE -1

\* The mantissa `mant` and the exponent ex = [st, n] of a literal, as a value
MantissaValue(mant, dp, ex) ==
    LET whole == IF dp < 0 THEN mant ELSE Slice(mant, 0, dp)
        frac == IF dp < 0 THEN <<>> ELSE From(mant, dp + 1)
    IN  IF ex.st # "ok" \/ ~AllDigits(whole) \/ ~AllDigits(frac) \/ (whole \o frac) = <<>>
        THEN [st |-> "ValueError", m |-> 0, e |-> 0]
        ELSE [st |-> "ok", m |-> DigitsValue(whole \o frac, 0), e |-> ex.n - Len(frac)]

\* The literal x split at its exponent marker, at index ep
SplitExponent(x, ep) ==
    Bind(IF ep < 0 THEN x ELSE Slice(x, 0, ep), LAMBDA mant :
        MantissaValue(mant, FindFirst(mant, <<".">>),
            IF ep < 0 THEN [st |-> "ok", n |-> 0] ELSE PyInt(From(x, ep + 1))))

\* The decimal value of an unsigned numeric literal
\* digits [. digits] [e|E [sign] digits], as <<m, e>> meaning m * 10^e;
\* st is "ValueError" when float() or Decimal() refuses the text.
ParseDecimal(x) == SplitExponent(x, FindFirst(x, <<"e", "E">>))

\* float(number) * sign
PyFloat(number, sign) ==
    Bind(ParseDecimal(number), LAMBDA d :
        IF d.st # "ok" THEN [st |-> "ValueError", val |-> VNull]
        ELSE IF d.m = 0 THEN [st |-> "ok", val |-> IF sign < 0 THEN VNegZero ELSE VFloat(0, 0)]
        ELSE [st |-> "ok", val |-> VFloat(sign * Norm10(d.m, d.e)[1], Norm10(d.m, d.e)[2])])

\* decimal.Decimal(number), then n *= sign.  Decimal() keeps the digits and
\* the exponent as written; it raises InvalidOperation on a text it refuses.
PyDecimal(number, sign) ==
    Bind(ParseDecimal(number), LAMBDA d :
        IF d.st # "ok" THEN [st |-> "InvalidOperation", val |-> VNull]
        ELSE [st |-> "ok", val |-> VDecimal(sign * d.m, d.e)])

----------------------------------------------------------------------------
(* JSON.decode_number *)

\* determine_float_precision(): the digits of repr(math.pi) less two, and the
\* largest exponent float() takes less one, of an IEEE 754 double.
float_sigdigits == 14
float_maxexp == 307

None == -1   \* Python's None where the source holds an index or None

\* A character of the class [-+0-9.a-zA-Z] of _numberlike_re
numberlike(c) ==
    In(c, <<"-", "+", ".">>) \/ (c >= O("0") /\ c <= O("9"))
    \/ (c >= O("a") /\ c <= O("z")) \/ (c >= O("A") /\ c <= O("Z"))

RECURSIVE numberlike_end(_, _)
\* The end of the match of _numberlike_re at i (i itself when it does not match)
numberlike_end(s, i) ==
    IF i < Len(s) /\ numberlike(At(s, i)) THEN numberlike_end(s, i + 1) ELSE i

RECURSIVE sign_prefix(_, _, _, _)
\* The loop over the sign prefix: <<sign, j>>
sign_prefix(s, imax, j, sign) ==
    IF j < imax /\ In(At(s, j), <<"+", "-">>)
    THEN sign_prefix(s, imax, j + 1, IF At(s, j) = O("-") THEN sign * (0 - 1) ELSE sign)
    ELSE <<sign, j>>

RECURSIVE hex_end(_, _, _)
hex_end(s, imax, k) ==
    IF k < imax /\ In(At(s, k), hexdigits) THEN hex_end(s, imax, k + 1) ELSE k

RECURSIVE number_scan(_, _, _, _, _)
\* The loop that finds the end of a decimal (or octal) number.  v holds the
\* loop's variables; "if not ept" is true of None and of 0 alike.
number_scan(s, imax, j, k, v) ==
    IF ~(k < imax /\ (isdigit(At(s, k)) \/ In(At(s, k), <<".", "+", "-", "e", "E">>)))
    THEN [v EXCEPT !.k = k]
    ELSE
      LET c == At(s, k)
          v1 == IF ~In(c, octaldigits) THEN [v EXCEPT !.could_be_octal = FALSE] ELSE v
      IN  IF c = O(".") THEN
              IF v1.decpt # None \/ v1.ept # None THEN [v1 EXCEPT !.k = k]
              ELSE number_scan(s, imax, j, k + 1, [v1 EXCEPT !.decpt = k - j])
          ELSE IF In(c, <<"e", "E">>) THEN
              IF v1.ept # None THEN [v1 EXCEPT !.k = k]
              ELSE number_scan(s, imax, j, k + 1, [v1 EXCEPT !.ept = k - j])
          ELSE IF In(c, <<"+", "-">>) THEN
              IF v1.ept = None \/ v1.ept = 0 THEN [v1 EXCEPT !.k = k]
              ELSE number_scan(s, imax, j, k + 1, [v1 EXCEPT !.esign = c])
          ELSE
              number_scan(s, imax, j, k + 1,
                  IF v1.ept = None \/ v1.ept = 0
                  THEN [v1 EXCEPT !.sigdigits = v1.sigdigits + 1] ELSE v1)

\* What decode_number returns for a helper's result h = [st, n]
IntResult(h, sign, k, log) ==
    IF h.st # "ok" THEN Raise(h.st, log) ELSE Ok(VInt(sign * h.n), k, log)

\* The integer n0 = int(...) times the sign and the power of ten
IntegerLiteral(n0, sign, exponent, k, log) ==
    IF n0.st # "ok" THEN Raise("ValueError", log)
    ELSE IF n0.n = 0 /\ sign < 0 THEN Ok(VNegZero, k, log)
    ELSE Ok(VInt(IF exponent # 0 THEN n0.n * sign * Pow(10, exponent) ELSE n0.n * sign), k, log)

\* The float or Decimal f made of the literal
FloatLiteral(f, k, log) ==
    IF f.st = "ValueError" THEN Raise("JSONDecodeError", log)
    ELSE IF f.st # "ok" THEN Raise(f.st, log)
    ELSE Ok(f.val, k, log)

\* The decimal literal `number` with the loop's variables v and the exponent
\* ex = [st, n]; "if ept:" is false of None and of 0 alike.
DecimalValue(number, v, ex, sign, log) ==
    IF ex.st # "ok" THEN Raise("JSONDecodeError", log)
    ELSE IF v.decpt = None /\ ex.n >= 0 THEN
        IntegerLiteral(PyInt(IF v.ept # None /\ v.ept # 0 THEN Slice(number, 0, v.ept)
                             ELSE number),
                       sign, ex.n, v.k, log)
    ELSE IF (IF ex.n < 0 THEN 0 - ex.n ELSE ex.n) > float_maxexp
            \/ v.sigdigits > float_sigdigits
    THEN FloatLiteral(PyDecimal(number, sign), v.k, log)
    ELSE FloatLiteral(PyFloat(number, sign), v.k, log)

\* The decimal (or octal) literal `number` with the loop's variables v
DecimalLiteral(al, number, v, sign, log) ==
    IF v.could_be_octal /\ al["octal_numbers"] THEN
        IntResult(decode_octal(number), sign, v.k, log)
    \* number[0] of an empty text
    ELSE IF number = <<>> THEN Raise("IndexError", log)
    ELSE IF number[1] = O(".") /\ ~al["initial_decimal_point"] THEN
        Raise("JSONDecodeError", log)
    ELSE IF number[1] = O("0") /\ Len(number) > 1 /\ isdigit(number[2]) THEN
        Raise("JSONDecodeError", log)
    ELSE IF v.decpt # None
            /\ (v.decpt + 1 >= Len(number) \/ ~isdigit(At(number, v.decpt + 1))) THEN
        Raise("JSONDecodeError", log)
    ELSE IF v.ept # None /\ v.ept + 1 >= Len(number) THEN
        Raise("JSONDecodeError", log)
    ELSE DecimalValue(number, v,
             IF v.ept # None THEN PyInt(From(number, v.ept + 1)) ELSE [st |-> "ok", n |-> 0],
             sign, log)

\* The literal after the sign prefix, which ends at index j
UnsignedLiteral(al, s, imax, sign, j, log) ==
    IF Slice(s, j, j + 3) = T(<<"N", "a", "N">>) THEN
        IF al["non_numbers"] THEN Ok(VNaN, j + 3, log)
        ELSE Raise("JSONDecodeError", log)
    ELSE IF Slice(s, j, j + 8) = T(<<"I", "n", "f", "i", "n", "i", "t", "y">>) THEN
        IF al["non_numbers"]
        THEN (IF sign < 0 THEN Ok(VNegInf, j + 8, log) ELSE Ok(VInf, j + 8, log))
        ELSE Raise("JSONDecodeError", log)
    ELSE IF Slice(s, j, j + 2) \in {T(<<"0", "x">>), T(<<"0", "X">>)} THEN
        IF al["hex_numbers"] THEN
            Bind(hex_end(s, imax, j + 2), LAMBDA k :
                IntResult(decode_hex(Slice(s, j + 2, k)), sign, k, log))
        ELSE Raise("JSONDecodeError", log)
    ELSE
        Bind(number_scan(s, imax, j, j,
                 [could_be_octal |-> (j + 1 < imax /\ At(s, j) = O("0")),
                  decpt |-> None, ept |-> None, esign |-> O("+"), sigdigits |-> 0, k |-> j]),
             LAMBDA v : DecimalLiteral(al, Slice(s, j, v.k), v, sign, log))

\* decode_number after the hooks: the sign prefix and the literal.
decode_number_builtin(al, s, i, imax, log) ==
    IF ~al["all_numeric_signs"]
       /\ (At(s, i) = O("+")
           \/ (At(s, i) = O("-") /\ i + 1 < imax /\ In(At(s, i + 1), <<"+", "-">>)))
    THEN Raise("JSONDecodeError", log)
    ELSE Bind(sign_prefix(s, imax, i, 1), LAMBDA sj :
             UnsignedLiteral(al, s, imax, sj[1], sj[2], log))

\* The hooks of decode_number on the number-like text nbr: [st, val, log],
\* st "JSONSkipHook" when no hook took the text.
NumberHooks(hk, nbr) ==
    IF (has_hook(hk, "decode_number") \/ has_hook(hk, "decode_float")) /\ nbr # <<>> THEN
        IF (\E q \in 1..Len(nbr) : nbr[q] = O(".")) /\ has_hook(hk, "decode_float") THEN
            Logged(call_hook(hk, "decode_float", VStr(nbr)),
                   <<HookCall("decode_float", VStr(nbr))>>)
        ELSE IF has_hook(hk, "decode_number") THEN
            Logged(call_hook(hk, "decode_number", VStr(nbr)),
                   <<HookCall("decode_number", VStr(nbr))>>)
        ELSE [st |-> "JSONSkipHook", val |-> VNull, log |-> <<>>]
    ELSE [st |-> "JSONSkipHook", val |-> VNull, log |-> <<>>]

\* JSON.decode_number(s, i, imax)
decode_number(al, hk, s, i, imax) ==
    Bind(Slice(s, i, numberlike_end(s, i)), LAMBDA nbr :
    Bind(NumberHooks(hk, nbr), LAMBDA h :
        IF h.st = "JSONSkipHook" THEN decode_number_builtin(al, s, i, imax, h.log)
        ELSE IF h.st # "ok" THEN Raise(h.st, h.log)
        ELSE Ok(h.val, i + Len(nbr), h.log)))

----------------------------------------------------------------------------
(* JSON.decode_string *)

\* JSON._escapes_json: the character an escape letter stands for, -1 for none
_escapes_json(c) ==
    IF c = O("\"") THEN O("\"") ELSE IF c = O("/") THEN O("/")
    ELSE IF c = O("\\") THEN O("\\") ELSE IF c = O("b") THEN O("BS")
    ELSE IF c = O("f") THEN O("FF") ELSE IF c = O("n") THEN O("LF")
    ELSE IF c = O("r") THEN O("CR") ELSE IF c = O("t") THEN O("TAB")
    ELSE -1

\* JSON._escapes_js
_escapes_js(c) ==
    IF c = O("\"") THEN O("\"") ELSE IF c = O("'") THEN O("'")
    ELSE IF c = O("\\") THEN O("\\") ELSE IF c = O("b") THEN O("BS")
    ELSE IF c = O("f") THEN O("FF") ELSE IF c = O("n") THEN O("LF")
    ELSE IF c = O("r") THEN O("CR") ELSE IF c = O("t") THEN O("TAB")
    ELSE IF c = O("v") THEN O("VT") ELSE IF c = O("0") THEN O("NUL")
    ELSE -1

\* helpers.surrogate_pair_as_unicode(c1, c2): [st, c]
surrogate_pair_as_unicode(c1, c2) ==
    IF c1 < 55296 \/ c1 > 56319 \/ c2 < 56320 \/ c2 > 57343
    THEN [st |-> "JSONDecodeError", c |-> 0]
    ELSE [st |-> "ok", c |-> (((c1 - 55296) * 1024) + (c2 - 56320)) + 65536]

\* helpers.unicode_as_surrogate_pair(c)
unicode_as_surrogate_pair(c) ==
    IF c < 65536 THEN <<c>>
    ELSE <<55296 + (((c - 65536) \div 1024) % 1024), 56320 + ((c - 65536) % 1024)>>

RECURSIVE octal_escape_end(_, _, _, _)
\* The for loop of an octal escape: the k it ends with
octal_escape_end(s, imax, k, last) ==
    IF k >= imax \/ ~In(At(s, k), octaldigits) THEN k
    ELSE IF k = last THEN k
    ELSE octal_escape_end(s, imax, k + 1, last)

RECURSIVE safe_run_end(_, _, _, _)
\* The loop over a run of "safe" characters
safe_run_end(s, imax, i, closer) ==
    IF i < imax /\ ~unsafe_string_chars(At(s, i)) /\ At(s, i) # closer
    THEN safe_run_end(s, imax, i + 1, closer) ELSE i

RECURSIVE string_loop(_, _, _, _, _, _, _)
\* The main loop of decode_string, from index i with the characters so far
\* in chunks: [st, s, i].  high_surrogate is None or the pending surrogate.
string_loop(al, s, imax, closer, i, chunks, high_surrogate) ==
    IF ~(i < imax) THEN [st |-> "JSONDecodeError", s |-> <<>>, i |-> i]   \* not done
    ELSE
    LET c == At(s, i)
        err == [st |-> "JSONDecodeError", s |-> <<>>, i |-> i]
    IN
    IF high_surrogate # None
       /\ (i + 1 >= imax \/ Slice(s, i, i + 2) # T(<<"\\", "u">>)) THEN err
    ELSE IF c = closer THEN [st |-> "ok", s |-> chunks, i |-> i + 1]
    ELSE IF c = O("\\") THEN
        IF i + 1 >= imax THEN err
        ELSE
        LET i1 == i + 1
            c1 == At(s, i1)
            i2 == i1 + 1
            digits == IF c1 = O("u") THEN 4 ELSE 2
        IN
        IF c1 >= O("0") /\ c1 <= O("7") /\ al["octal_numbers"] THEN
            Bind(octal_escape_end(s, imax, i1,
                     i1 + (IF c1 >= O("0") /\ c1 <= O("3") THEN 3 ELSE 2)), LAMBDA k :
            Bind(decode_octal(Slice(s, i1, k)), LAMBDA n :
                IF n.st # "ok" THEN [err EXCEPT !.st = n.st]
                ELSE string_loop(al, s, imax, closer, k, Append(chunks, n.n), high_surrogate)))
        ELSE
        Bind(IF al["js_string_escapes"] THEN _escapes_js(c1) ELSE _escapes_json(c1),
             LAMBDA escaped :
        IF escaped # -1 THEN
            string_loop(al, s, imax, closer, i1 + 1, Append(chunks, escaped), high_surrogate)
        ELSE IF c1 = O("u") \/ c1 = O("x") THEN
            IF c1 = O("x") /\ ~al["js_string_escapes"] THEN err
            ELSE IF i2 + digits >= imax THEN err
            ELSE
            Bind(decode_hex(Slice(s, i2, i2 + digits)), LAMBDA n :
            IF n.st # "ok" THEN [err EXCEPT !.st = n.st]
            ELSE IF high_surrogate # None THEN
                Bind(surrogate_pair_as_unicode(high_surrogate, n.n), LAMBDA p :
                    IF p.st # "ok" THEN err
                    ELSE string_loop(al, s, imax, closer, i2 + digits,
                             Append(chunks, p.c), None))
            ELSE IF n.n < 128 THEN
                string_loop(al, s, imax, closer, i2 + digits, Append(chunks, n.n), None)
            ELSE IF n.n >= 55296 /\ n.n <= 56319 THEN
                IF imax < i2 + digits + 2 \/ At(s, i2 + digits) # O("\\")
                   \/ At(s, i2 + digits + 1) # O("u") THEN err
                ELSE string_loop(al, s, imax, closer, i2 + digits, chunks, n.n)
            ELSE IF n.n >= 56320 /\ n.n <= 57343 THEN err
            ELSE string_loop(al, s, imax, closer, i2 + digits, Append(chunks, n.n), None))
        ELSE
            IF al["nonescape_characters"]
            THEN string_loop(al, s, imax, closer, i1 + 1, Append(chunks, c1), high_surrogate)
            ELSE err)
    ELSE IF c <= 31 THEN
        IF islineterm(c) THEN err
        ELSE IF al["control_char_in_string"]
        THEN string_loop(al, s, imax, closer, i + 1, Append(chunks, c), high_surrogate)
        ELSE err
    ELSE
        Bind(safe_run_end(s, imax, i + 1, closer), LAMBDA e :
            string_loop(al, s, imax, closer, e, chunks \o Slice(s, i, e), high_surrogate))

\* The decode_string hook on the string r = [st, s, i] of the literal
StringHook(hk, r) ==
    IF r.st # "ok" THEN Raise(r.st, <<>>)
    ELSE IF has_hook(hk, "decode_string") THEN
        Bind(call_hook(hk, "decode_string", VStr(r.s)), LAMBDA h :
            IF h.st = "JSONSkipHook"
            THEN Ok(VStr(r.s), r.i, <<HookCall("decode_string", VStr(r.s))>>)
            ELSE IF h.st # "ok" THEN Raise(h.st, <<HookCall("decode_string", VStr(r.s))>>)
            ELSE Ok(h.val, r.i, <<HookCall("decode_string", VStr(r.s))>>))
    ELSE Ok(VStr(r.s), r.i, <<>>)

\* JSON.decode_string(s, i, imax)
decode_string(al, hk, s, i, imax) ==
    IF imax < i + 2 \/ ~In(At(s, i), <<"\"", "'">>) THEN Raise("JSONDecodeError", <<>>)
    ELSE IF At(s, i) = O("'") /\ ~al["single_quoted_strings"] THEN Raise("JSONDecodeError", <<>>)
    ELSE StringHook(hk, string_loop(al, s, imax, At(s, i), i + 1, <<>>, None))

----------------------------------------------------------------------------
(* Whitespace and comments *)

RECURSIVE comment_loop(_, _, _)
\* The loop of skip_comment from index i: [st, j], the index after the comment
comment_loop(txt, multiline, i) ==
    IF ~(i < Len(txt)) THEN
        IF ~multiline THEN [st |-> "ok", j |-> Len(txt)]
        ELSE [st |-> "JSONDecodeError", j |-> 0]
    ELSE IF multiline THEN
        IF At(txt, i) = O("*") /\ i + 1 < Len(txt) /\ At(txt, i + 1) = O("/")
        THEN [st |-> "ok", j |-> i + 2]
        ELSE IF At(txt, i) = O("/") /\ i + 1 < Len(txt) /\ At(txt, i + 1) = O("*")
        THEN [st |-> "JSONDecodeError", j |-> 0]
        ELSE comment_loop(txt, multiline, i + 1)
    ELSE
        IF islineterm(At(txt, i)) THEN [st |-> "ok", j |-> i]
        ELSE comment_loop(txt, multiline, i + 1)

\* JSON.skip_comment(txt, i): [st, j]
skip_comment(al, txt, i) ==
    IF i + 1 >= Len(txt) \/ At(txt, i) # O("/") \/ ~In(At(txt, i + 1), <<"/", "*">>)
    THEN [st |-> "ok", j |-> i]
    ELSE IF ~al["comments"] THEN [st |-> "JSONDecodeError", j |-> 0]
    ELSE comment_loop(txt, At(txt, i + 1) = O("*"), i + 2)

RECURSIVE skipws_any(_, _, _, _)
\* JSON.skipws_any(txt, i, imax): [st, i]
skipws_any(al, txt, i, imax) ==
    IF ~(i < imax) THEN [st |-> "ok", i |-> i]
    ELSE
    Bind(IF At(txt, i) = O("/") THEN skip_comment(al, txt, i) ELSE [st |-> "ok", j |-> i],
         LAMBDA c :
        IF c.st # "ok" THEN [st |-> c.st, i |-> 0]
        ELSE IF c.j < imax /\ isws(al, At(txt, c.j)) THEN skipws_any(al, txt, c.j + 1, imax)
        ELSE [st |-> "ok", i |-> c.j])

RECURSIVE skipws_narrow(_, _, _)
skipws_narrow(txt, i, imax) ==
    IF i < imax /\ In(At(txt, i), <<" ", "CR", "LF", "TAB">>)
    THEN skipws_narrow(txt, i + 1, imax) ELSE i

\* JSON.skipws(txt, i, imax): [st, i]
skipws(al, txt, i, imax) ==
    IF ~al["comments"] /\ ~al["unicode_whitespace"]
    THEN [st |-> "ok", i |-> skipws_narrow(txt, i, imax)]
    ELSE skipws_any(al, txt, i, imax)

----------------------------------------------------------------------------
(* JSON.decodeobj and JSON.decode_composite *)

RECURSIVE identifier_end(_, _, _)
identifier_end(txt, imax, j) ==
    IF j < imax /\ (isalnum(At(txt, j)) \/ In(At(txt, j), <<"_", "$">>))
    THEN identifier_end(txt, imax, j + 1) ELSE j

RECURSIVE decodeobj(_, _, _, _, _, _, _)
RECURSIVE decode_composite(_, _, _, _, _)
RECURSIVE composite_loop(_, _, _, _, _, _, _, _, _)

\* The keyword or identifier txt[i:j]
Keyword(al, hk, txt, i, j, kw, identifier_as_string) ==
    IF kw = T(<<"n", "u", "l", "l">>) THEN Ok(VNull, j, <<>>)
    ELSE IF kw = T(<<"t", "r", "u", "e">>) THEN Ok(VBool(TRUE), j, <<>>)
    ELSE IF kw = T(<<"f", "a", "l", "s", "e">>) THEN Ok(VBool(FALSE), j, <<>>)
    ELSE IF kw = T(<<"u", "n", "d", "e", "f", "i", "n", "e", "d">>) THEN
        IF al["undefined_values"] THEN Ok(VUndef, j, <<>>)
        ELSE Raise("JSONDecodeError", <<>>)
    ELSE IF kw = T(<<"N", "a", "N">>) \/ kw = T(<<"I", "n", "f", "i", "n", "i", "t", "y">>)
    THEN decode_number(al, hk, txt, i, Len(txt))
    ELSE IF identifier_as_string THEN Ok(VStr(kw), j, <<>>)
    ELSE Raise("JSONDecodeError", <<>>)

\* JSON.decodeobj(txt, i, imax, identifier_as_string, only_object_or_array)
decodeobj(al, hk, txt, i0, imax, identifier_as_string, only_object_or_array) ==
    Bind(skipws(al, txt, i0, imax), LAMBDA w :
    IF w.st # "ok" THEN Raise(w.st, <<>>)
    ELSE IF w.i >= imax THEN Raise("JSONDecodeError", <<>>)
    ELSE
    LET i == w.i
        c == At(txt, i)
    IN
    IF c = O("[") \/ c = O("{") THEN decode_composite(al, hk, txt, i, imax)
    ELSE IF only_object_or_array THEN Raise("JSONDecodeError", <<>>)
    ELSE IF c = O("\"") \/ c = O("'") THEN decode_string(al, hk, txt, i, imax)
    ELSE IF isdigit(c) \/ In(c, <<".", "+", "-">>) THEN
        \* NaN and Infinity come here too, with imax = len(txt)
        decode_number(al, hk, txt, i, imax)
    ELSE IF isalpha(c) \/ In(c, <<"_", "$">>) THEN
        Bind(identifier_end(txt, imax, i), LAMBDA j :
            Keyword(al, hk, txt, i, j, Slice(txt, i, j), identifier_as_string))
    ELSE Raise("JSONDecodeError", <<>>))

\* skipws, then the rest of the work `Then` from the index it returns
AfterWs(al, txt, i, imax, log, Then(_)) ==
    Bind(skipws(al, txt, i, imax), LAMBDA w :
        IF w.st # "ok" THEN Raise(w.st, log) ELSE Then(w.i))

\* The while loop of decode_composite from index i0, with the items so far in
\* obj (a list's items, or a dict's <<key, value>> items): [st, val, i, log]
\* where val holds the items when the closing bracket was found.
composite_loop(al, hk, txt, imax, isdict, i0, obj, saw_value, log) ==
    IF ~(i0 < imax) THEN Raise("JSONDecodeError", log)      \* not done
    ELSE
    AfterWs(al, txt, i0, imax, log, LAMBDA i :
    IF i < imax /\ (At(txt, i) = O(",") \/ At(txt, i) = (IF isdict THEN O("}") ELSE O("]")))
    THEN
        IF At(txt, i) = O(",") THEN
            IF ~saw_value THEN
                IF isdict THEN Raise("JSONDecodeError", log)
                ELSE IF al["omitted_array_elements"] THEN
                    composite_loop(al, hk, txt, imax, isdict, i + 1,
                        Append(obj, IF al["undefined_values"] THEN VUndef ELSE VNull),
                        FALSE, log)
                ELSE Raise("JSONDecodeError", log)
            ELSE composite_loop(al, hk, txt, imax, isdict, i + 1, obj, FALSE, log)
        ELSE
            IF ~saw_value /\ ~al["trailing_comma_in_literal"] THEN Raise("JSONDecodeError", log)
            ELSE [st |-> "ok", val |-> obj, i |-> i + 1, log |-> log]
    ELSE
    Bind(decodeobj(al, hk, txt, i, Len(txt), isdict /\ al["nonstring_keys"], FALSE), LAMBDA r :
    Bind(log \o r.log, LAMBDA log1 :
    IF r.st # "ok" THEN Raise(r.st, log1)
    ELSE IF saw_value THEN Raise("JSONDecodeError", log1)
    ELSE
    AfterWs(al, txt, r.i, imax, log1, LAMBDA i2 :
    IF isdict THEN
        IF ~isstringtype(r.val) /\ ~(isnumbertype(r.val) /\ al["nonstring_keys"])
        THEN Raise("JSONDecodeError", log1)
        ELSE IF i2 >= imax \/ At(txt, i2) # O(":") THEN Raise("JSONDecodeError", log1)
        ELSE
        AfterWs(al, txt, i2 + 1, imax, log1, LAMBDA i3 :
        Bind(decodeobj(al, hk, txt, i3, Len(txt), FALSE, FALSE), LAMBDA rval :
        Bind(log1 \o rval.log, LAMBDA log2 :
        IF rval.st # "ok" THEN Raise(rval.st, log2)
        ELSE
        AfterWs(al, txt, rval.i, imax, log2, LAMBDA i4 :
            composite_loop(al, hk, txt, imax, isdict, i4,
                DictSet(obj, r.val, rval.val), TRUE, log2)))))
    ELSE composite_loop(al, hk, txt, imax, isdict, i2, Append(obj, r.val), TRUE, log1)))))

\* decode_composite with the composite's hook called before its children are
\* decoded (the order the code does not have)
CompositeHookFirst(hk, isdict, obj, body) ==
    IF isdict /\ has_hook(hk, "decode_object") THEN
        Bind(call_hook(hk, "decode_object", obj), LAMBDA h :
            IF h.st \notin {"ok", "JSONSkipHook"}
            THEN Raise(h.st, <<HookCall("decode_object", obj)>> \o body.log)
            ELSE Ok(IF h.st = "ok" THEN h.val ELSE obj, body.i,
                    <<HookCall("decode_object", obj)>> \o body.log))
    ELSE IF has_hook(hk, "decode_array") THEN
        Bind(call_hook(hk, "decode_array", obj), LAMBDA h :
            IF h.st \notin {"ok", "JSONSkipHook"}
            THEN Raise(h.st, <<HookCall("decode_array", obj)>> \o body.log)
            ELSE Ok(IF h.st = "ok" THEN h.val ELSE obj, body.i,
                    <<HookCall("decode_array", obj)>> \o body.log))
    ELSE Ok(obj, body.i, body.log)

\* The decode_object or decode_array hook on the finished composite obj
CompositeHook(hk, isdict, obj, body) ==
    IF isdict /\ has_hook(hk, "decode_object") THEN
        Bind(call_hook(hk, "decode_object", obj), LAMBDA h :
            IF h.st = "JSONSkipHook"
            THEN Ok(obj, body.i, Append(body.log, HookCall("decode_object", obj)))
            ELSE IF h.st # "ok"
            THEN Raise(h.st, Append(body.log, HookCall("decode_object", obj)))
            ELSE Ok(h.val, body.i, Append(body.log, HookCall("decode_object", obj))))
    ELSE IF has_hook(hk, "decode_array") THEN
        Bind(call_hook(hk, "decode_array", obj), LAMBDA h :
            IF h.st = "JSONSkipHook"
            THEN Ok(obj, body.i, Append(body.log, HookCall("decode_array", obj)))
            ELSE IF h.st # "ok"
            THEN Raise(h.st, Append(body.log, HookCall("decode_array", obj)))
            ELSE Ok(h.val, body.i, Append(body.log, HookCall("decode_array", obj))))
    ELSE Ok(obj, body.i, body.log)

\* JSON.decode_composite(txt, i, imax)
decode_composite(al, hk, txt, i0, imax) ==
    AfterWs(al, txt, i0, imax, <<>>, LAMBDA i :
    IF i >= imax \/ ~In(At(txt, i), <<"{", "[">>) THEN Raise("JSONDecodeError", <<>>)
    ELSE
    LET isdict == At(txt, i) # O("[")
    IN
    AfterWs(al, txt, i + 1, imax, <<>>, LAMBDA i1 :
    Bind(IF i1 < imax /\ At(txt, i1) = (IF isdict THEN O("}") ELSE O("]"))
         THEN [st |-> "ok", val |-> <<>>, i |-> i1 + 1, log |-> <<>>]
         ELSE composite_loop(al, hk, txt, imax, isdict, i1, <<>>, FALSE, <<>>), LAMBDA body :
    IF body.st # "ok" THEN Raise(body.st, body.log)
    ELSE CompositeHook(hk, isdict, IF isdict THEN VDict(body.val) ELSE VList(body.val), body))))

\* The end of JSON.decode: r is what decodeobj returned
DecodeEnd(al, txt, r) ==
    IF r.st # "ok" THEN r
    ELSE AfterWs(al, txt, r.i, Len(txt), r.log, LAMBDA i :
             IF i < Len(txt) THEN Raise("JSONDecodeError", r.log) ELSE r)

\* JSON.decode(txt): [st, val, i, log]
JSON_decode(al, hk, txt0) ==
    Bind(IF al["unicode_format_control_chars"]
         THEN strip_format_control_chars(txt0) ELSE txt0, LAMBDA txt :
        DecodeEnd(al, txt,
            decodeobj(al, hk, txt, 0, Len(txt), FALSE, ~al["any_type_at_start"])))

----------------------------------------------------------------------------
(* The instance as a state machine: configuration calls *)

\* What a call that returns nothing leaves in res.
Returned(v) == [st |-> "ok", val |-> v, log |-> <<>>]
Raised(cls) == [st |-> cls, val |-> VNull, log |-> <<>>]
\* What a call leaves in res when it raises cls(*args)
RaisedWith(cls, args) ==
    [st |-> cls, val |-> [t |-> "exception", args |-> args], log |-> <<>>]

MaxConfig == 2

\* JSON(strict=..., compactly=...)
Init ==
    \E strict \in BOOLEAN, compact \in BOOLEAN :
        /\ allow = _set_strictness(strict)
        /\ hook = NoHooks
        /\ compactly = compact
        /\ nconf = 0
        /\ ncall = 0
        /\ op = "__init__"
        /\ arg = [strict |-> strict, compactly |-> compact]
        /\ res = Returned(VNull)

\* json.strict = strict, which calls _set_strictness(strict)
SetStrictness(strict) ==
    /\ allow' = _set_strictness(strict)
    /\ nconf' = nconf + 1
    /\ op' = "_set_strictness"
    /\ arg' = [strict |-> strict]
    /\ res' = Returned(VNull)
    /\ UNCHANGED <<hook, compactly, ncall>>

UnknownBehavior == "no_such_behavior"

\* allow(behavior) without the hasattr test: setattr(self, p, True) on any name
Allow_setattr(behavior) ==
    /\ nconf' = nconf + 1
    /\ op' = "allow"
    /\ arg' = [behavior |-> behavior]
    /\ allow' = [b \in DOMAIN allow \cup {behavior} |-> IF b = behavior THEN TRUE ELSE allow[b]]
    /\ res' = Returned(VNull)
    /\ UNCHANGED <<hook, compactly, ncall>>

\* json.allow(behavior)
Allow(behavior) ==
    /\ nconf' = nconf + 1
    /\ op' = "allow"
    /\ arg' = [behavior |-> behavior]
    /\ IF behavior \in DOMAIN allow
       THEN allow' = [allow EXCEPT ![behavior] = TRUE] /\ res' = Returned(VNull)
       ELSE /\ allow' = allow
            /\ res' = RaisedWith("AttributeError", <<"Behavior is not known", behavior>>)
    /\ UNCHANGED <<hook, compactly, ncall>>

\* json.prevent(behavior)
Prevent(behavior) ==
    /\ nconf' = nconf + 1
    /\ op' = "prevent"
    /\ arg' = [behavior |-> behavior]
    /\ IF behavior \in DOMAIN allow
       THEN allow' = [allow EXCEPT ![behavior] = FALSE] /\ res' = Returned(VNull)
       ELSE /\ allow' = allow
            /\ res' = RaisedWith("AttributeError", <<"Behavior is not known", behavior>>)
    /\ UNCHANGED <<hook, compactly, ncall>>

UnknownHook == "no_such_hook"
NotCallable == "notcallable"

\* set_hook storing the function before it tests it (what the code does not do)
SetHook_unchecked(hookname, function) ==
    /\ nconf' = nconf + 1
    /\ op' = "set_hook"
    /\ arg' = [hookname |-> hookname, function |-> function]
    /\ IF hookname \in all_hook_names
       THEN /\ hook' = [hook EXCEPT ![hookname] = function]
            /\ res' = IF function # NotCallable THEN Returned(VNull) ELSE Raised("ValueError")
       ELSE hook' = hook /\ res' = Raised("ValueError")
    /\ UNCHANGED <<allow, compactly, ncall>>

\* json.set_hook(hookname, function)
SetHook(hookname, function) ==
    /\ nconf' = nconf + 1
    /\ op' = "set_hook"
    /\ arg' = [hookname |-> hookname, function |-> function]
    /\ IF hookname \in all_hook_names /\ function # NotCallable
       THEN hook' = [hook EXCEPT ![hookname] = function] /\ res' = Returned(VNull)
       ELSE hook' = hook /\ res' = Raised("ValueError")
    /\ UNCHANGED <<allow, compactly, ncall>>

\* json.clear_hook(hookname)
ClearHook(hookname) ==
    /\ nconf' = nconf + 1
    /\ op' = "clear_hook"
    /\ arg' = [hookname |-> hookname]
    /\ IF hookname \in all_hook_names
       THEN hook' = [hook EXCEPT ![hookname] = NoneHook] /\ res' = Returned(VNull)
       ELSE hook' = hook /\ res' = Raised("ValueError")
    /\ UNCHANGED <<allow, compactly, ncall>>

\* json.clear_all_hooks()
ClearAllHooks ==
    /\ nconf' = nconf + 1
    /\ op' = "clear_all_hooks"
    /\ arg' = [none |-> TRUE]
    /\ hook' = [h \in all_hook_names |-> NoneHook]
    /\ res' = Returned(VNull)
    /\ UNCHANGED <<allow, compactly, ncall>>

\* The functions the controller specification installs as hooks.
SpecFunctions == {"wrap", NoneHook, NotCallable}

\* The controller specification: an instance takes up to MaxConfig
\* configuration calls.
Next ==
    \/ nconf < MaxConfig /\ \E strict \in BOOLEAN : SetStrictness(strict)
    \/ nconf < MaxConfig /\ \E b \in Behaviors \cup {UnknownBehavior} : Allow(b)
    \/ nconf < MaxConfig /\ \E b \in Behaviors \cup {UnknownBehavior} : Prevent(b)
    \/ nconf < MaxConfig /\ \E h \in all_hook_names \cup {UnknownHook}, f \in SpecFunctions :
            SetHook(h, f)
    \/ nconf < MaxConfig /\ \E h \in all_hook_names \cup {UnknownHook} : ClearHook(h)
    \/ nconf < MaxConfig /\ ClearAllHooks

Spec == Init /\ [][Next]_vars

\* C10: immediately after constructing an instance or calling _set_strictness,
\* with strict=True every behaviour other than any_type_at_start is prevented,
\* and with strict=False every behaviour other than octal_numbers is allowed;
\* so octal_numbers is prevented and any_type_at_start allowed for both.
C10_InitialStrictness ==
    op \in {"__init__", "_set_strictness"} =>
        /\ arg.strict => prevented_behaviors(allow) = Behaviors \ {"any_type_at_start"}
        /\ ~arg.strict => allowed_behaviors(allow) = Behaviors \ {"octal_numbers"}
        /\ "octal_numbers" \in prevented_behaviors(allow)
        /\ "any_type_at_start" \in allowed_behaviors(allow)

\* _set_strictness(True) called on an instance that had been reconfigured
C10_Witness ==
    /\ op = "_set_strictness" /\ arg.strict /\ nconf = MaxConfig
    /\ prevented_behaviors(allow) = Behaviors \ {"any_type_at_start"}

\* C11: the strict property reflects the strictness that was set: read right
\* after the construction with strict=..., or after an assignment to strict,
\* with no allow() call since, it returns the value that was given.
C11_StrictPropertyReflects ==
    op \in {"__init__", "_set_strictness"} => (_is_strict(allow) <=> arg.strict)

\* C12: allow(name) and prevent(name) with a known name set exactly the named
\* behaviour and leave every other behaviour and every hook unchanged; with
\* an unknown name they raise AttributeError naming it, leave all behaviours
\* unchanged and add no entry to behaviors; allowed_behaviors and
\* prevented_behaviors are always disjoint with behaviors as their union.
C12_AllowPreventFrame ==
    [][ /\ allowed_behaviors(allow') \cap prevented_behaviors(allow') = {}
        /\ allowed_behaviors(allow') \cup prevented_behaviors(allow') = behaviors(allow')
        /\ op' \in {"allow", "prevent"} =>
              /\ hook' = hook
              /\ behaviors(allow') = behaviors(allow)
              /\ IF arg'.behavior \in behaviors(allow)
                 THEN /\ res'.st = "ok"
                      /\ allow'[arg'.behavior] = (op' = "allow")
                      /\ \A b \in behaviors(allow) \ {arg'.behavior} : allow'[b] = allow[b]
                 ELSE /\ res'.st = "AttributeError"
                      /\ \E k \in DOMAIN res'.val.args : res'.val.args[k] = arg'.behavior
                      /\ allow' = allow ]_vars

\* prevent("comments") after allow("octal_numbers") on a non-strict instance:
\* comments is prevented and octal_numbers is still allowed
C12_Witness ==
    /\ op = "prevent" /\ arg.behavior = "comments" /\ nconf = MaxConfig
    /\ res.st = "ok"
    /\ prevented_behaviors(allow) = {"comments"}
    /\ hook = NoHooks

----------------------------------------------------------------------------
(* Decoding *)

\* json.decode(txt)
Decode(txt) ==
    /\ op' = "decode"
    /\ arg' = [txt |-> txt]
    /\ res' = Bind(JSON_decode(allow, hook, txt), LAMBDA r : Logged(r, r.log))
    /\ ncall' = ncall + 1
    /\ UNCHANGED <<allow, hook, compactly, nconf>>

\* JSON(strict=...), the other arguments at their defaults
InitDefault ==
    \E strict \in BOOLEAN :
        /\ allow = _set_strictness(strict)
        /\ hook = NoHooks
        /\ compactly = TRUE
        /\ nconf = 0
        /\ ncall = 0
        /\ op = "__init__"
        /\ arg = [strict |-> strict, compactly |-> TRUE]
        /\ res = Returned(VNull)

RECURSIVE Concat(_)
\* The concatenation of a sequence of texts
Concat(ts) == IF ts = <<>> THEN <<>> ELSE Head(ts) \o Concat(Tail(ts))

\* The texts made of up to n of the given fragments
Texts(fragments, n) ==
    UNION {{Concat(ts) : ts \in [1..k -> fragments]} : k \in 0..n}

MaxAllow == 1
MaxDecode == 1
MaxNumberFragments == 4

NumberFragments ==
    {T(<<"-">>), T(<<"+">>), T(<<"0">>), T(<<"1">>), T(<<"x">>), T(<<"e">>),
     T(<<".">>), T(<<"[">>), T(<<"]">>)}

MaxExponentDigits == 1

\* Whether a text holds an exponent marker followed by more than
\* MaxExponentDigits digits (the model's integers are bounded).
LongExponent(txt) ==
    \E k \in 1..Len(txt) :
        /\ txt[k] = O("e")
        /\ \E j \in k + 1..Len(txt) - MaxExponentDigits :
              \A d \in j..j + MaxExponentDigits : isdigit(txt[d])

NumberTexts ==
    {txt \in Texts(NumberFragments, MaxNumberFragments) : ~LongExponent(txt)}

NumberBehaviors ==
    {"octal_numbers", "hex_numbers", "all_numeric_signs", "initial_decimal_point"}

\* The number specification: an instance with up to MaxAllow behaviours of
\* number syntax switched decodes up to MaxDecode texts made of number
\* fragments.
NextNumbers ==
    \/ nconf < MaxAllow /\ \E b \in NumberBehaviors : Allow(b)
    \/ nconf < MaxAllow /\ \E b \in NumberBehaviors : Prevent(b)
    \/ ncall < MaxDecode /\ \E txt \in NumberTexts : Decode(txt)

SpecNumbers == InitDefault /\ [][NextNumbers]_vars

\* C2: with no hooks installed, decode either returns a value or fails with
\* JSONDecodeError; it never fails with any other kind of error.
C2_DecodeErrorsClosed ==
    (op = "decode" /\ hook = NoHooks) => res.st \in {"ok", "JSONDecodeError"}

\* Whether txt is an integer literal of magnitude zero behind a net negative
\* sign run: signs holding an odd number of "-", then "0", "00", ... or
\* "0x0", "0x00", ...
NegativeZeroLiteral(txt) ==
    \E k \in 1..Len(txt) - 1 :
        /\ \A j \in 1..k : txt[j] \in {O("-"), O("+")}
        /\ Cardinality({j \in 1..k : txt[j] = O("-")}) % 2 = 1
        /\ txt[k + 1] = O("0")
        /\ \/ \A j \in k + 1..Len(txt) : txt[j] = O("0")
           \/ /\ Len(txt) >= k + 3
              /\ txt[k + 2] = O("x")
              /\ \A j \in k + 3..Len(txt) : txt[j] = O("0")

\* C7: negative zero is preserved: where decode accepts an integer literal of
\* magnitude zero with a net negative sign run (decimal, hexadecimal or taken
\* through the octal path), the value is the float -0.0, both when the literal
\* is the whole document and when it is the one element of an array.
C7_NegativeZeroPreserved ==
    (op = "decode" /\ res.st = "ok") =>
        /\ NegativeZeroLiteral(arg.txt) => res.val = VNegZero
        /\ ( /\ Len(arg.txt) > 2
             /\ Head(arg.txt) = O("[")
             /\ arg.txt[Len(arg.txt)] = O("]")
             /\ NegativeZeroLiteral(SubSeq(arg.txt, 2, Len(arg.txt) - 1)) )
           => res.val = VList(<<VNegZero>>)

----------------------------------------------------------------------------
(* Decoding string literals *)

MaxStringFragments == 4

StringFragments ==
    {T(<<"\"">>), T(<<"'">>), T(<<"a">>), T(<<"[">>), T(<<"]">>),
     T(<<"HIGH">>), T(<<"SHY">>),
     T(<<"\\", "u", "D", "8", "3", "D">>), T(<<"\\", "u", "D", "E", "0", "0">>),
     T(<<"\\", "u", "z", "z", "z", "z">>)}

StringTexts == Texts(StringFragments, MaxStringFragments)

StringBehaviors ==
    {"single_quoted_strings", "unicode_format_control_chars", "nonescape_characters"}

\* The string specification: an instance with up to MaxAllow behaviours of
\* string syntax switched decodes up to MaxDecode texts made of string
\* fragments.
NextStrings ==
    \/ nconf < MaxAllow /\ \E b \in StringBehaviors : Allow(b)
    \/ nconf < MaxAllow /\ \E b \in StringBehaviors : Prevent(b)
    \/ ncall < MaxDecode /\ \E txt \in StringTexts : Decode(txt)

SpecStrings == InitDefault /\ [][NextStrings]_vars

\* Whether the strict decoder and the non-strict decoder, neither with hooks,
\* agree on txt in the sense of C3, given what the strict decoder made of it
AcceptedByNonStrict(strict_result, nonstrict_result) ==
    strict_result.st = "ok" =>
        /\ nonstrict_result.st = "ok"
        /\ ValEq(nonstrict_result.val, strict_result.val)

\* C3: a document that the decoder configured with strict=True accepts with
\* value v is accepted by the decoder configured with strict=False, with a
\* value equal to v.
C3_StrictSubsetOfNonStrict ==
    (op = "decode" /\ allow = _set_strictness(TRUE) /\ hook = NoHooks) =>
        AcceptedByNonStrict(res, JSON_decode(_set_strictness(FALSE), NoHooks, arg.txt))

RECURSIVE HasSurrogate(_)
\* Whether a string or object key anywhere in the value v holds a character
\* of U+D800..U+DFFF
HasSurrogate(v) ==
    IF v.t = "str" THEN \E k \in 1..Len(v.s) : category(v.s[k]) = "Cs"
    ELSE IF v.t = "list" THEN \E k \in 1..Len(v.items) : HasSurrogate(v.items[k])
    ELSE IF v.t = "dict" THEN
        \E k \in 1..Len(v.pairs) :
            HasSurrogate(v.pairs[k][1]) \/ HasSurrogate(v.pairs[k][2])
    ELSE FALSE

\* C6: with no hooks, no string value and no object key of a decoded result
\* holds a surrogate (a character of U+D800..U+DFFF), whether it was written
\* as a \u escape or as a raw character of the string literal.
C6_NoSurrogateDecoded ==
    (op = "decode" /\ hook = NoHooks /\ res.st = "ok") => ~HasSurrogate(res.val)

----------------------------------------------------------------------------
(* Decoding with hooks *)

MaxSetHook == 2
MaxHookFragments == 3

HookFragments ==
    {T(<<"1">>), T(<<"1", ".", "5">>), T(<<"\"", "a", "\"">>), T(<<"[">>), T(<<"]">>),
     T(<<"{", "}">>), T(<<",">>)}

HookTexts == Texts(HookFragments, MaxHookFragments)

DecodeHooks ==
    {"decode_number", "decode_float", "decode_object", "decode_array", "decode_string"}

\* The hook specification: an instance with up to MaxSetHook decode hooks set,
\* each to a function that skips or to one that wraps its argument, decodes
\* up to MaxDecode texts.
NextHooks ==
    \/ nconf < MaxSetHook /\ \E h \in DecodeHooks, f \in {"skip", "wrap"} : SetHook(h, f)
    \/ ncall < MaxDecode /\ \E txt \in HookTexts : Decode(txt)

SpecHooks == InitDefault /\ [][NextHooks]_vars

\* C8: a hook that raises JSONSkipHook on each invocation gives the same
\* result, value or error, as the same decode with that hook not installed
\* and the other hooks unchanged.
C8_SkipIsUnset ==
    op = "decode" =>
        \A h \in DecodeHooks :
            hook[h] = "skip" =>
                Bind(JSON_decode(allow, [hook EXCEPT ![h] = NoneHook], arg.txt),
                     LAMBDA unset : unset.st = res.st /\ unset.val = res.val)

----------------------------------------------------------------------------
(* The module's decode function, on a unicode text *)

\* A strict baseline as the default of decode's strict parameter
strict_default_true == TRUE

\* The default of the strict parameter of decode
strict_default == FALSE

\* A keyword argument is [prefix, name, value]: the keyword is prefix followed
\* by name, where prefix is "allow_", "prevent_" or empty.  The values are
\* "True", "False" and the callables.
bool(value) == value # "False"

RECURSIVE decode_keywords(_, _, _)
\* The loop over kw.items() of decode, on the instance j = [al, hk]: [st, al, hk]
decode_keywords(al, hk, kw) ==
    IF kw = <<>> THEN [st |-> "ok", al |-> al, hk |-> hk]
    ELSE
    Bind(Head(kw), LAMBDA k :
    IF k.prefix = "" /\ k.name \in all_hook_names THEN
        IF k.value # NoneHook /\ k.value \notin Callables
        THEN [st |-> "ValueError", al |-> al, hk |-> hk]
        ELSE decode_keywords(al, [hk EXCEPT ![k.name] = k.value], Tail(kw))
    ELSE IF k.prefix = "" THEN [st |-> "TypeError", al |-> al, hk |-> hk]
    ELSE IF k.name = "" THEN decode_keywords(al, hk, Tail(kw))
    ELSE IF k.name \notin DOMAIN al THEN [st |-> "AttributeError", al |-> al, hk |-> hk]
    ELSE decode_keywords(
            [al EXCEPT ![k.name] = IF k.prefix = "allow_" THEN bool(k.value)
                                   ELSE ~bool(k.value)],
            hk, Tail(kw)))

\* decode(txt, strict, **kw) for a unicode txt: [st, val, log]
decode(txt, strict, kw) ==
    Bind(decode_keywords(_set_strictness(strict), NoHooks, kw), LAMBDA j :
        IF j.st # "ok" THEN Raised(j.st)
        ELSE Bind(JSON_decode(j.al, j.hk, txt), LAMBDA r : Logged(r, r.log)))

\* demjson.decode(txt, **kw) or demjson.decode(txt, strict=..., **kw).  The
\* function builds an instance of its own and leaves the others alone.
TopDecode(txt, strict, kw) ==
    /\ op' = "demjson.decode"
    /\ arg' = [txt |-> txt, strict |-> strict, kw |-> kw]
    /\ res' = decode(txt, IF strict = "unset" THEN strict_default ELSE strict = "True", kw)
    /\ ncall' = ncall + 1
    /\ UNCHANGED <<allow, hook, compactly, nconf>>

\* A document for each extension of the non-strict syntax that C5 names
ExtensionDocs ==
    [single_quoted_strings |-> T(<<"'", "a", "'">>),
     comments |-> T(<<"1", "/", "*", "*", "/">>),
     trailing_comma_in_literal |-> T(<<"[", "1", ",", "]">>),
     non_numbers |-> T(<<"N", "a", "N">>),
     hex_numbers |-> T(<<"0", "x", "1">>),
     undefined_values |-> T(<<"u", "n", "d", "e", "f", "i", "n", "e", "d">>),
     omitted_array_elements |-> T(<<"[", ",", "1", "]">>)]

TopTexts ==
    {ExtensionDocs[b] : b \in DOMAIN ExtensionDocs}
        \cup {T(<<"1">>), T(<<"[", "1", "]">>), T(<<"[">>)}

MaxKeywords == 1

Keywords ==
    [prefix : {"allow_", "prevent_"},
     name : DOMAIN ExtensionDocs \cup {UnknownBehavior, ""},
     value : {"True", "False"}]
        \cup [prefix : {""}, name : {"decode_string", UnknownHook},
              value : {"wrap", "True"}]

\* The keyword arguments in the order kw.items() yields them
KeywordLists ==
    {kw \in UNION {[1..n -> Keywords] : n \in 0..MaxKeywords} :
        \A a, b \in 1..Len(kw) :
            (kw[a].prefix = kw[b].prefix /\ kw[a].name = kw[b].name) => a = b}

\* The function specification: one call of demjson.decode.
NextTop ==
    ncall = 0 /\ \E txt \in TopTexts, strict \in {"unset", "True", "False"},
                     kw \in KeywordLists : TopDecode(txt, strict, kw)

SpecTop == InitDefault /\ [][NextTop]_vars

----------------------------------------------------------------------------
(* The encoder: texts of numbers and strings *)

RECURSIVE NatText(_)
\* str(n) for an int n >= 0
NatText(n) ==
    IF n < 10 THEN <<48 + n>> ELSE Append(NatText(n \div 10), 48 + (n % 10))

\* str(n) for an int or long n
IntText(n) == IF n < 0 THEN <<O("-")>> \o NatText(-n) ELSE NatText(n)

\* n characters "0"
Zeros(n) == [k \in 1..n |-> O("0")]

\* repr(n) of the finite float whose shortest digits are ds, with the decimal
\* point decpt places right of the start of ds.  Exponent notation is used
\* when decpt <= -4 or decpt > 16, as float_repr_style 'short' does.
FloatDigitsRepr(ds, decpt) ==
    IF decpt <= -4 \/ decpt > 16 THEN
        <<Head(ds)>> \o (IF Len(ds) > 1 THEN <<O(".")>> \o Tail(ds) ELSE <<>>)
            \o <<O("e"), IF decpt - 1 < 0 THEN O("-") ELSE O("+")>>
            \o (IF (decpt - 1 < 10) /\ (decpt - 1 > -10) THEN <<O("0")>> ELSE <<>>)
            \o NatText(IF decpt - 1 < 0 THEN 1 - decpt ELSE decpt - 1)
    ELSE IF decpt <= 0 THEN <<O("0"), O(".")>> \o Zeros(-decpt) \o ds
    ELSE IF decpt >= Len(ds) THEN ds \o Zeros(decpt - Len(ds)) \o <<O("."), O("0")>>
    ELSE SubSeq(ds, 1, decpt) \o <<O(".")>> \o SubSeq(ds, decpt + 1, Len(ds))

\* repr(n) for a finite float n = m * 10^e
FloatRepr(n) ==
    IF n.k = "negzero" THEN T(<<"-", "0", ".", "0">>)
    ELSE IF n.m = 0 THEN T(<<"0", ".", "0">>)
    ELSE (IF n.m < 0 THEN <<O("-")>> ELSE <<>>)
            \o Bind(NatText(IF n.m < 0 THEN -n.m ELSE n.m),
                    LAMBDA ds : FloatDigitsRepr(ds, Len(ds) + n.e))

\* str(n) of a Decimal with coefficient digits ds and exponent e, the decimal
\* point put dotplace digits right of the start of ds
DecimalDigitsStr(ds, e, dotplace) ==
    (IF dotplace <= 0 THEN <<O("0"), O(".")>> \o Zeros(-dotplace) \o ds
     ELSE IF dotplace >= Len(ds) THEN ds \o Zeros(dotplace - Len(ds))
     ELSE SubSeq(ds, 1, dotplace) \o <<O(".")>> \o SubSeq(ds, dotplace + 1, Len(ds)))
    \o (IF Len(ds) + e = dotplace THEN <<>>
        ELSE <<O("E")>> \o (IF Len(ds) + e - dotplace < 0 THEN <<>> ELSE <<O("+")>>)
                \o IntText(Len(ds) + e - dotplace))

\* str(n) for a decimal.Decimal n
DecimalStr(n) ==
    (IF n.m < 0 THEN <<O("-")>> ELSE <<>>)
        \o Bind(NatText(IF n.m < 0 THEN -n.m ELSE n.m), LAMBDA ds :
               DecimalDigitsStr(ds, n.e,
                   IF n.e <= 0 /\ Len(ds) + n.e > -6 THEN Len(ds) + n.e ELSE 1))

\* JSON.encode_number(n) for an int, long, float or Decimal n: the text
encode_number(n) ==
    IF n.t = "int" THEN IntText(n.n)
    ELSE IF n.t = "decimal" THEN DecimalStr(n)
    ELSE IF n.k = "nan" THEN T(<<"N", "a", "N">>)
    ELSE IF n.k = "inf" THEN T(<<"I", "n", "f", "i", "n", "i", "t", "y">>)
    ELSE IF n.k = "neginf" THEN T(<<"-", "I", "n", "f", "i", "n", "i", "t", "y">>)
    ELSE FloatRepr(n)

\* JSON._rev_escapes
_rev_escapes ==
    (O("LF") :> T(<<"\\", "n">>)) @@ (O("TAB") :> T(<<"\\", "t">>)) @@
    (O("BS") :> T(<<"\\", "b">>)) @@ (O("CR") :> T(<<"\\", "r">>)) @@
    (O("FF") :> T(<<"\\", "f">>)) @@ (O("\"") :> T(<<"\\", "\"">>)) @@
    (O("\\") :> T(<<"\\", "\\">>))

\* JSON._asciiencodable[cord], for cord < 256
_asciiencodable(cord) ==
    /\ 32 <= cord /\ cord < 128
    /\ cord \notin DOMAIN _rev_escapes
    /\ category(cord) \notin {"Cc", "Cf", "Zl", "Zp"}

\* '%x' % d for 0 <= d < 16
HexDigit(d) == IF d < 10 THEN 48 + d ELSE 87 + d

\* r'\u%04x' % cord
UnicodeEscape(cord) ==
    <<O("\\"), O("u")>>
        \o (IF cord >= 65536 THEN <<HexDigit(cord \div 65536)>> ELSE <<>>)
        \o <<HexDigit((cord \div 4096) % 16), HexDigit((cord \div 256) % 16),
             HexDigit((cord \div 16) % 16), HexDigit(cord % 16)>>

\* What self._encode_unicode_as_escapes can hold: a bool, written "True" or
\* "False", or a predicate on one character.  The predicates of the model:
\* "ge_0x80" and "ge_0x100" are the functions that the module's encode
\* defines; "never" and "always" are functions of the user that return False
\* and True.
EscapePredicates == {"ge_0x80", "ge_0x100", "never", "always"}

\* encunicode(c) for a predicate
escape_predicate(encunicode, cord) ==
    IF encunicode = "ge_0x80" THEN cord >= 128
    ELSE IF encunicode = "ge_0x100" THEN cord >= 256
    ELSE encunicode = "always"

\* What encode_string appends for the character cord, which is not a
\* surrogate: the character or an escape of it
encode_char(cord, encunicode) ==
    IF cord < 256 /\ _asciiencodable(cord) /\ encunicode \notin EscapePredicates
    THEN <<cord>>
    ELSE IF cord \in DOMAIN _rev_escapes THEN _rev_escapes[cord]
    ELSE IF cord <= 31 THEN UnicodeEscape(cord)
    ELSE IF \/ category(cord) \in {"Cc", "Cf", "Zl", "Zp"}
            \/ encunicode \notin EscapePredicates /\ bool(encunicode)
            \/ encunicode \in EscapePredicates /\ escape_predicate(encunicode, cord)
    THEN
        IF cord <= 65535 THEN UnicodeEscape(cord)
        ELSE UnicodeEscape(unicode_as_surrogate_pair(cord)[1])
                \o UnicodeEscape(unicode_as_surrogate_pair(cord)[2])
    ELSE <<cord>>

RECURSIVE encode_string_loop(_, _, _, _)
\* The while loop of encode_string from index i (1-based), out being the
\* text of the chunks so far: [st, out]
encode_string_loop(s, encunicode, i, out) ==
    IF i > Len(s) THEN [st |-> "ok", out |-> Append(out, O("\""))]
    ELSE IF s[i] >= 55296 /\ s[i] <= 57343 THEN [st |-> "JSONEncodeError", out |-> <<>>]
    ELSE encode_string_loop(s, encunicode, i + 1, out \o encode_char(s[i], encunicode))

\* JSON.encode_string(s), encunicode being self._encode_unicode_as_escapes
encode_string(s, encunicode) == encode_string_loop(s, encunicode, 1, <<O("\"")>>)

----------------------------------------------------------------------------
(* The encoder: values *)

\* JSON._classify_for_encoding(obj)
_classify_for_encoding(obj) ==
    IF obj.t \in {"null", "undefined", "bool"} THEN obj.t
    ELSE IF obj.t \in {"int", "float", "decimal"} THEN "number"
    ELSE IF obj.t = "str" THEN "string"
    ELSE IF obj.t = "dict" THEN "dict"
    ELSE IF obj.t = "list" THEN "sequence"
    ELSE "other"

\* What an encoding step made: the chunks it appended and the hook calls
EncOk(chunks, log) == [st |-> "ok", chunks |-> chunks, log |-> log]
EncRaise(cls, log) == [st |-> cls, chunks |-> <<>>, log |-> log]

\* The try/except around a hook of the encoder: [st, obj, changed, log], where
\* obj is the hook's result, or the argument when there is no hook or the hook
\* raised JSONSkipHook, and changed is whether obj is another object than the
\* argument.
EncodeHook(hk, hook_name, obj, log) ==
    IF ~has_hook(hk, hook_name)
    THEN [st |-> "ok", obj |-> obj, changed |-> FALSE, log |-> log]
    ELSE Bind(call_hook(hk, hook_name, obj), LAMBDA h :
        [st |-> IF h.st = "JSONSkipHook" THEN "ok" ELSE h.st,
         obj |-> IF h.st = "ok" THEN h.val ELSE obj,
         changed |-> h.st = "ok" /\ hk[hook_name] # "same",
         log |-> Append(log, HookCall(hook_name, obj))])

\* a < b for two unicode strings
TextLess(a, b) ==
    \E k \in 1..Len(b) :
        /\ \A n \in 1..k - 1 : n <= Len(a) /\ a[n] = b[n]
        /\ k > Len(a) \/ a[k] < b[k]

\* x < y for two lists of strings
ChunksLess(x, y) ==
    \E k \in 1..Len(y) :
        /\ \A n \in 1..k - 1 : n <= Len(x) /\ x[n] = y[n]
        /\ k > Len(x) \/ TextLess(x[k], y[k])

RECURSIVE SortInsert(_, _)
\* The sorted list sorted with x put after the items that are not greater
SortInsert(sorted, x) ==
    IF sorted = <<>> THEN <<x>>
    ELSE IF ChunksLess(x, Head(sorted)) THEN <<x>> \o sorted
    ELSE <<Head(sorted)>> \o SortInsert(Tail(sorted), x)

\* The items left in the order the iterator gave them
list_unsorted(seq) == seq

RECURSIVE list_sort(_)
\* sequence_chunks.sort()
list_sort(seq) ==
    IF seq = <<>> THEN <<>>
    ELSE SortInsert(list_sort(SubSeq(seq, 1, Len(seq) - 1)), seq[Len(seq)])

RECURSIVE extend_and_flatten_list_with_sep(_, _, _)
\* extend_and_flatten_list_with_sep(orig_seq, extension_seq, separator),
\* the separator being a non-empty string
extend_and_flatten_list_with_sep(orig_seq, extension_seq, separator) ==
    IF extension_seq = <<>> THEN orig_seq
    ELSE extend_and_flatten_list_with_sep(
            orig_seq \o Head(extension_seq)
                \o (IF Len(extension_seq) > 1 THEN <<separator>> ELSE <<>>),
            Tail(extension_seq), separator)

\* '  ' * n
Indent(n) == [k \in 1..2 * n |-> O(" ")]

\* The chunks of a composite from its opening bracket to its closing bracket,
\* around the item chunk lists sequence_chunks
composite_chunks(compact, isdict, nest_level, sequence_chunks) ==
    <<IF isdict THEN <<O("{")>> ELSE <<O("[")>>>>
    \o (IF compact THEN <<>> ELSE <<<<O(" ")>>>>)
    \o extend_and_flatten_list_with_sep(<<>>, sequence_chunks,
            IF compact THEN <<O(",")>> ELSE <<O(","), O("LF")>> \o Indent(nest_level + 1))
    \o (IF compact THEN <<>>
        ELSE IF Len(sequence_chunks) > 1 THEN <<<<O("LF")>> \o Indent(nest_level)>>
        ELSE <<<<O(" ")>>>>)
    \o <<IF isdict THEN <<O("}")>> ELSE <<O("]")>>>>

MaxRecursion == 3

\* The object an item of a composite is, the composite being the first of the
\* containers env2 it stands in: [obj, env, same], where env are the
\* containers around obj and same is whether obj is the composite itself.
ItemObject(item, env2) ==
    IF item.t = "ref"
    THEN [obj |-> env2[item.up + 1], env |-> SubSeq(env2, item.up + 2, Len(env2)),
          same |-> item.up = 0]
    ELSE [obj |-> item, env |-> env2, same |-> FALSE]

RECURSIVE JSON_encode(_, _, _, _, _)
RECURSIVE encode_helper(_, _, _, _, _)
RECURSIVE encode_composite(_, _, _, _, _)
RECURSIVE try_encode_default(_, _, _, _, _)
RECURSIVE sequence_loop(_, _, _, _, _, _, _)
RECURSIVE dict_loop(_, _, _, _, _, _, _)

\* The text and the hook calls of a nested self.encode(obj, nest_level), as
\* one chunk
EncodedChunk(r, log) ==
    IF r.st # "ok" THEN EncRaise(r.st, log \o r.log)
    ELSE EncOk(<<r.val.s>>, log \o r.log)

\* encode_helper after the encode_value hook h and the json_equivalent test
encode_classified(j, h, cls, env, nest_level, d) ==
    IF h.obj.t = "equivalent" THEN
        \* encode_equivalent: obj2 = obj.json_equivalent()
        EncodedChunk(JSON_encode(j, h.obj.of, env, nest_level, d + 1), h.log)
    ELSE IF cls = "null" THEN EncOk(<<T(<<"n", "u", "l", "l">>)>>, h.log)
    ELSE IF cls = "undefined" THEN
        IF j.allow["undefined_values"]
        THEN EncOk(<<T(<<"u", "n", "d", "e", "f", "i", "n", "e", "d">>)>>, h.log)
        ELSE EncRaise("JSONEncodeError", h.log)
    ELSE IF cls = "bool" THEN
        EncOk(<<IF h.obj.b THEN T(<<"t", "r", "u", "e">>)
                ELSE T(<<"f", "a", "l", "s", "e">>)>>, h.log)
    ELSE IF cls = "number" THEN EncOk(<<encode_number(h.obj)>>, h.log)
    ELSE IF cls = "string" THEN
        Bind(encode_string(h.obj.s, j.escape_unicode), LAMBDA e :
            IF e.st # "ok" THEN EncRaise(e.st, h.log) ELSE EncOk(<<e.out>>, h.log))
    ELSE Bind(encode_composite(j, h.obj, env, nest_level, d), LAMBDA c :
            IF c.st # "ok" THEN EncRaise(c.st, h.log \o c.log)
            ELSE EncOk(c.chunks, h.log \o c.log))

\* JSON.encode_helper(chunklist, obj, nest_level): the chunks it appends.  env
\* are the containers obj stands in and d the depth of the calls.
encode_helper(j, obj, env, nest_level, d) ==
    IF d > MaxRecursion THEN EncRaise("RuntimeError", <<>>)
    ELSE
    Bind(EncodeHook(j.hook, "encode_value", obj, <<>>), LAMBDA h :
        IF h.st # "ok" THEN EncRaise(h.st, h.log)
        ELSE IF h.changed /\ _classify_for_encoding(h.obj) # _classify_for_encoding(obj)
        THEN EncodedChunk(JSON_encode(j, h.obj, env, nest_level, d + 1), h.log)
        ELSE encode_classified(j, h, _classify_for_encoding(obj), env, nest_level, d))

\* The loop of encode_composite over the items of a sequence obj, from items
\* on, acc being sequence_chunks: [st, chunks, log] with chunks = sequence_chunks
sequence_loop(j, env2, items, nest_level, d, acc, log) ==
    IF items = <<>> THEN EncOk(acc, log)
    ELSE
    Bind(ItemObject(Head(items), env2), LAMBDA obj2 :
        IF obj2.same THEN EncRaise("JSONEncodeError", log)
        ELSE Bind(encode_helper(j, obj2.obj, obj2.env, nest_level + 1, d + 1), LAMBDA r :
            IF r.st # "ok" THEN EncRaise(r.st, log \o r.log)
            ELSE sequence_loop(j, env2, Tail(items), nest_level, d,
                               Append(acc, r.chunks), log \o r.log)))

\* The key of a dict item after the hooks, checked and encoded, then the value
dict_item(j, env2, k2, item, nest_level, d) ==
    IF k2.st # "ok" THEN EncRaise(k2.st, k2.log)
    ELSE IF ~isstringtype(k2.obj) /\ ~(isnumbertype(k2.obj) /\ j.allow["nonstring_keys"])
    THEN EncRaise("JSONEncodeError", k2.log)
    ELSE
    Bind(encode_helper(j, k2.obj, env2, nest_level + 1, d + 1), LAMBDA rk :
        IF rk.st # "ok" THEN EncRaise(rk.st, k2.log \o rk.log)
        ELSE
        Bind(ItemObject(item[2], env2), LAMBDA obj3 :
        Bind(encode_helper(j, obj3.obj, obj3.env, nest_level + 2, d + 1), LAMBDA rv :
            IF rv.st # "ok" THEN EncRaise(rv.st, (k2.log \o rk.log) \o rv.log)
            ELSE EncOk((rk.chunks \o <<IF j.compactly THEN <<O(":")>>
                                        ELSE <<O(" "), O(":"), O(" ")>>>>) \o rv.chunks,
                       (k2.log \o rk.log) \o rv.log))))

\* The loop of encode_composite over the keys of a dict, from items on
dict_loop(j, env2, items, nest_level, d, acc, log) ==
    IF items = <<>> THEN EncOk(acc, log)
    ELSE
    Bind(EncodeHook(j.hook, "encode_value", Head(items)[1], <<>>), LAMBDA k1 :
    Bind(IF k1.st # "ok" THEN k1
         ELSE EncodeHook(j.hook, "encode_dict_key", k1.obj, k1.log), LAMBDA k2 :
    Bind(dict_item(j, env2, k2, Head(items), nest_level, d), LAMBDA r :
        IF r.st # "ok" THEN EncRaise(r.st, log \o r.log)
        ELSE dict_loop(j, env2, Tail(items), nest_level, d,
                       Append(acc, r.chunks), log \o r.log))))

\* encode_composite after its hook h: the iterator and the items
composite_items(j, h, cls, env, nest_level, d) ==
    IF cls = "dict" THEN
        Bind(dict_loop(j, <<h.obj>> \o env, h.obj.pairs, nest_level, d, <<>>, h.log),
             LAMBDA r :
            IF r.st # "ok" THEN r
            ELSE EncOk(composite_chunks(j.compactly, TRUE, nest_level, list_sort(r.chunks)),
                       r.log))
    ELSE IF cls = "sequence" THEN
        Bind(sequence_loop(j, <<h.obj>> \o env, h.obj.items, nest_level, d, <<>>, h.log),
             LAMBDA r :
            IF r.st # "ok" THEN r
            ELSE EncOk(composite_chunks(j.compactly, FALSE, nest_level, r.chunks), r.log))
    ELSE
        \* iter(obj) raises TypeError: an unknown type
        Bind(try_encode_default(j, h.obj, env, nest_level, d), LAMBDA r :
            IF r.st # "ok" THEN EncRaise(r.st, h.log \o r.log)
            ELSE EncOk(<<r.val.s>>, h.log \o r.log))

\* JSON.encode_composite(chunklist, obj, nest_level): the chunks it appends
encode_composite(j, obj, env, nest_level, d) ==
    Bind(EncodeHook(j.hook,
            IF _classify_for_encoding(obj) = "dict" THEN "encode_dict"
            ELSE IF _classify_for_encoding(obj) = "sequence" THEN "encode_sequence"
            ELSE "None", obj, <<>>), LAMBDA h :
        IF h.st # "ok" THEN EncRaise(h.st, h.log)
        ELSE IF h.changed /\ _classify_for_encoding(h.obj) # _classify_for_encoding(obj)
        THEN EncodedChunk(JSON_encode(j, h.obj, env, nest_level, d + 1), h.log)
        ELSE composite_items(j, h, _classify_for_encoding(obj), env, nest_level, d))

\* JSON.encode_default(obj, nest_level)
encode_default(obj, log) == [st |-> "JSONEncodeError", val |-> VNull, log |-> log]

\* JSON.try_encode_default(obj, nest_level): [st, val, log]
try_encode_default(j, obj, env, nest_level, d) ==
    Bind(EncodeHook(j.hook, "encode_default", obj, <<>>), LAMBDA h :
        IF h.st # "ok" THEN [st |-> h.st, val |-> VNull, log |-> h.log]
        ELSE IF h.changed THEN
            Bind(JSON_encode(j, h.obj, env, nest_level, d + 1), LAMBDA r :
                Logged(r, h.log \o r.log))
        ELSE encode_default(h.obj, h.log))

\* ''.join(chunks), with the line feed JSON.encode appends at nest level 0
\* when it does not encode compactly
JoinChunks(compact, nest_level, r) ==
    IF r.st # "ok" THEN [st |-> r.st, val |-> VNull, log |-> r.log]
    ELSE [st |-> "ok",
          val |-> VStr(Concat(r.chunks)
                        \o (IF nest_level = 0 /\ ~compact THEN <<O("LF")>> ELSE <<>>)),
          log |-> r.log]

\* JSON.encode(obj, nest_level) on the instance j = [allow, hook, compactly,
\* escape_unicode]: [st, val, log], val being the text
JSON_encode(j, obj, env, nest_level, d) ==
    JoinChunks(j.compactly, nest_level, encode_helper(j, obj, env, nest_level, d))

----------------------------------------------------------------------------
(* Encoding *)

\* json.encode(obj), escape_unicode at its default
Encode(obj) ==
    /\ op' = "encode"
    /\ arg' = [obj |-> obj]
    /\ res' = Bind(JSON_encode([allow |-> allow, hook |-> hook,
                                compactly |-> compactly, escape_unicode |-> "False"],
                               obj, <<>>, 0, 0),
                   LAMBDA r : Logged(r, r.log))
    /\ ncall' = ncall + 1
    /\ UNCHANGED <<allow, hook, compactly, nconf>>

MaxEncode == 1
MaxListLen == 2

\* The values that are no containers
EncodeAtoms ==
    {VNull, VUndef, VBool(TRUE), VInt(1), VNaN, VInf, VNegInf, VNegZero,
     VFloat(15, -1), VStr(T(<<"a">>)), VStr(T(<<" ", "\"">>))}

\* The lists of up to MaxListLen of the given members
ListsOf(members) ==
    UNION {{VList(xs) : xs \in [1..k -> members]} : k \in 0..MaxListLen}

\* The dicts with the key "a", or the keys "b" and "a", and the given members
DictsOf(members) ==
    {VDict(<<>>)}
    \cup {VDict(<<<<VStr(T(<<"a">>)), x>>>>) : x \in members}
    \cup {VDict(<<<<VStr(T(<<"b">>)), x>>, <<VStr(T(<<"a">>)), y>>>>) :
             x \in members, y \in {VInt(1), VNaN, VRef(0)}}

\* Containers of atoms and of themselves
EncodeContainers ==
    ListsOf(EncodeAtoms \cup {VRef(0)}) \cup DictsOf(EncodeAtoms \cup {VRef(0)})

\* What is encoded: an atom, a container, or a container in a list or a dict
EncodeValues ==
    EncodeAtoms \cup EncodeContainers
    \cup {VList(<<x>>) : x \in EncodeContainers}
    \cup {VDict(<<<<VStr(T(<<"a">>)), x>>>>) : x \in EncodeContainers}

EncodeBehaviors == {"non_numbers", "undefined_values"}

\* The encoding specification: an instance, strict or not and compact or
\* not, with up to MaxAllow behaviours switched, encodes up to MaxEncode
\* values.
NextEncode ==
    \/ nconf < MaxAllow /\ \E b \in EncodeBehaviors : Allow(b)
    \/ nconf < MaxAllow /\ \E b \in EncodeBehaviors : Prevent(b)
    \/ ncall < MaxEncode /\ \E v \in EncodeValues : Encode(v)

SpecEncode == Init /\ [][NextEncode]_vars

RECURSIVE HasNonNumber(_)
\* Whether NaN, Infinity or -Infinity is the value v or a member anywhere
\* inside it
HasNonNumber(v) ==
    IF v.t = "float" THEN v.k \in {"nan", "inf", "neginf"}
    ELSE IF v.t = "list" THEN \E k \in 1..Len(v.items) : HasNonNumber(v.items[k])
    ELSE IF v.t = "dict" THEN \E k \in 1..Len(v.pairs) : HasNonNumber(v.pairs[k][2])
    ELSE FALSE

RECURSIVE HasRef(_)
\* Whether the value v holds a reference to a container around it
HasRef(v) ==
    IF v.t = "ref" THEN TRUE
    ELSE IF v.t = "list" THEN \E k \in 1..Len(v.items) : HasRef(v.items[k])
    ELSE IF v.t = "dict" THEN \E k \in 1..Len(v.pairs) : HasRef(v.pairs[k][2])
    ELSE FALSE

\* C1: an encoder built with strict=True, with no allow() call and no hook,
\* fails with JSONEncodeError on NaN, Infinity and -Infinity, at the root or
\* nested anywhere inside a list or a dict, and produces no output.
C1_StrictRejectsNonNumbers ==
    ( /\ op = "encode"
      /\ allow = _set_strictness(TRUE) /\ nconf = 0 /\ hook = NoHooks
      /\ HasNonNumber(arg.obj) /\ ~HasRef(arg.obj) )
        => res.st = "JSONEncodeError"

\* Whether v is a list that has itself as an element, or a dict that has
\* itself as a member value
ContainsItself(v) ==
    \/ v.t = "list" /\ \E k \in 1..Len(v.items) : v.items[k] = VRef(0)
    \/ v.t = "dict" /\ \E k \in 1..Len(v.pairs) : v.pairs[k][2] = VRef(0)

\* C9: encoding a container that directly contains itself, a list that has
\* itself as an element or a dict that has itself as a member value, ends
\* with JSONEncodeError and not in recursion without bound.
C9_SelfReferenceDetected ==
    (op = "encode" /\ hook = NoHooks /\ ContainsItself(arg.obj))
        => res.st = "JSONEncodeError"

----------------------------------------------------------------------------
(* Decoding, then encoding what was decoded *)

MaxRoundTripFragments == 4

RoundTripFragments ==
    {T(<<"\"", "a", "\"">>), T(<<"\"", "HIGH", "\"">>), T(<<"1">>),
     T(<<"n", "u", "l", "l">>), T(<<"t", "r", "u", "e">>),
     T(<<"u", "n", "d", "e", "f", "i", "n", "e", "d">>),
     T(<<"[">>), T(<<"]">>), T(<<"{", "\"", "a", "\"", ":">>),
     T(<<",", "\"", "b", "\"", ":">>), T(<<"}">>), T(<<",">>)}

\* Documents of arrays and objects in each other
NestedDocs ==
    {Concat(<<T(<<"{", "\"", "a", "\"", ":">>), T(<<"[">>), T(<<"1">>), T(<<",">>),
              T(<<"{", "\"", "a", "\"", ":">>), T(<<"1">>), T(<<"}">>), T(<<"]">>),
              T(<<",", "\"", "b", "\"", ":">>), T(<<"n", "u", "l", "l">>), T(<<"}">>)>>),
     Concat(<<T(<<"[">>), T(<<"[">>), T(<<"1">>), T(<<",">>), T(<<"\"", "a", "\"">>),
              T(<<"]">>), T(<<",">>), T(<<"{", "\"", "a", "\"", ":">>), T(<<"[">>),
              T(<<"]">>), T(<<"}">>), T(<<"]">>)>>)}

RoundTripTexts == Texts(RoundTripFragments, MaxRoundTripFragments) \cup NestedDocs

\* The round-trip specification: an instance, strict or not and compact or
\* not, decodes a document and encodes the value it got.
NextRoundTrip ==
    \/ ncall = 0 /\ \E txt \in RoundTripTexts : Decode(txt)
    \/ ncall = 1 /\ op = "decode" /\ res.st = "ok" /\ Encode(res.val)

SpecRoundTrip == Init /\ [][NextRoundTrip]_vars

RECURSIVE IsPlain(_)
\* Whether v is built from None, undefined, booleans, integers, strings,
\* lists and dicts
IsPlain(v) ==
    IF v.t \in {"null", "undefined", "bool", "int", "str"} THEN TRUE
    ELSE IF v.t = "list" THEN \A k \in 1..Len(v.items) : IsPlain(v.items[k])
    ELSE IF v.t = "dict" THEN
        \A k \in 1..Len(v.pairs) : IsPlain(v.pairs[k][1]) /\ IsPlain(v.pairs[k][2])
    ELSE FALSE

\* Whether the text that encode made of v decodes, with the behaviours al and
\* no hooks, to a value equal to v
DecodesBackTo(al, encoded, v) ==
    /\ encoded.st = "ok"
    /\ Bind(JSON_decode(al, NoHooks, encoded.val.s), LAMBDA r :
           r.st = "ok" /\ ValEq(r.val, v))

\* C4: with no hooks, where decode accepted a document with a value v built
\* from null, undefined, booleans, integers, strings, arrays and objects,
\* encode(v) on the same instance succeeds and its text decodes on that
\* instance to a value equal to v, for compact and for pretty output.
C4_RoundTrip ==
    (op = "encode" /\ hook = NoHooks /\ IsPlain(arg.obj))
        => DecodesBackTo(allow, res, arg.obj)

----------------------------------------------------------------------------
(* Encoding dicts: the order of the members *)

MaxMembers == 3

SortKeys ==
    {VStr(T(<<"a">>)), VStr(T(<<"b">>)), VStr(T(<<"a", "b">>)), VInt(9), VInt(10)}

\* The value that the dicts of the sort specification hold at a key
MemberValue(key) == IF isstringtype(key) THEN VInt(Len(key.s)) ELSE VStr(T(<<"a">>))

\* The dicts of up to MaxMembers members with distinct keys of SortKeys, in
\* every insertion order
SortDicts ==
    UNION {{VDict([k \in 1..n |-> <<ks[k], MemberValue(ks[k])>>]) :
                ks \in {f \in [1..n -> SortKeys] :
                            \A a, b \in 1..n : a # b => f[a] # f[b]}} : n \in 0..MaxMembers}

\* The dicts of the two string keys "b" and "a", in both insertion orders
TwoMembers ==
    {VDict(<<<<VStr(T(<<"b">>)), VInt(1)>>, <<VStr(T(<<"a">>)), VInt(2)>>>>),
     VDict(<<<<VStr(T(<<"a">>)), VInt(2)>>, <<VStr(T(<<"b">>)), VInt(1)>>>>)}

\* What the sort specification encodes: dicts, and dicts and lists that hold
\* dicts of two members
SortValues ==
    SortDicts
    \cup {VDict(<<<<VStr(T(<<"b">>)), x>>, <<VStr(T(<<"a">>)), y>>>>) :
             x \in TwoMembers \cup {VInt(1)}, y \in TwoMembers}
    \cup {VList(<<x, y>>) : x \in TwoMembers, y \in TwoMembers}

\* The sort specification: an instance, strict or not and compact or not,
\* with nonstring_keys switched or not, encodes a value of SortValues.
NextSort ==
    \/ nconf < MaxAllow /\ Allow("nonstring_keys")
    \/ nconf < MaxAllow /\ Prevent("nonstring_keys")
    \/ ncall = 0 /\ \E v \in SortValues : Encode(v)

SpecSort == Init /\ [][NextSort]_vars

\* The permutations of 1..n
Orders(n) == {f \in [1..n -> 1..n] : \A a, b \in 1..n : a # b => f[a] # f[b]}

RECURSIVE Reorderings(_)
\* The values that hold the same members as v, inserted in any order into
\* each of its dicts
Reorderings(v) ==
    IF v.t = "dict" THEN
        {VDict([k \in 1..Len(v.pairs) |-> <<v.pairs[p[k]][1], vs[p[k]]>>]) :
            p \in Orders(Len(v.pairs)),
            vs \in {f \in [1..Len(v.pairs) -> UNION {Reorderings(v.pairs[k][2]) :
                                                        k \in 1..Len(v.pairs)}] :
                        \A k \in 1..Len(v.pairs) : f[k] \in Reorderings(v.pairs[k][2])}}
    ELSE IF v.t = "list" THEN
        {VList(xs) :
            xs \in {f \in [1..Len(v.items) -> UNION {Reorderings(v.items[k]) :
                                                        k \in 1..Len(v.items)}] :
                        \A k \in 1..Len(v.items) : f[k] \in Reorderings(v.items[k])}}
    ELSE {v}

\* The text that encode makes of a dict key
KeyText(key) ==
    IF isstringtype(key) THEN encode_string(key.s, "False").out ELSE encode_number(key)

RECURSIVE KeysAscending(_)
\* Whether in every dict of the value v, whose items stand as a document
\* listed them, each key text is less than the next
KeysAscending(v) ==
    IF v.t = "dict" THEN
        /\ \A k \in 1..Len(v.pairs) - 1 :
              TextLess(KeyText(v.pairs[k][1]), KeyText(v.pairs[k + 1][1]))
        /\ \A k \in 1..Len(v.pairs) : KeysAscending(v.pairs[k][2])
    ELSE IF v.t = "list" THEN \A k \in 1..Len(v.items) : KeysAscending(v.items[k])
    ELSE TRUE

\* C13: with no hooks, every object that holds the members of the encoded
\* one, inserted in another order, is encoded to the identical text (or fails
\* alike), and in that text, read back as a document, the members of every
\* object stand in ascending order of their encoded key text.
C13_KeySortedOutput ==
    (op = "encode" /\ hook = NoHooks) =>
        /\ \A w \in Reorderings(arg.obj) :
              Bind(JSON_encode([allow |-> allow, hook |-> hook, compactly |-> compactly,
                                escape_unicode |-> "False"], w, <<>>, 0, 0),
                   LAMBDA r : r.st = res.st /\ r.val = res.val)
        /\ res.st = "ok" =>
              Bind(JSON_decode(allow, NoHooks, res.val.s), LAMBDA r :
                  r.st = "ok" /\ KeysAscending(r.val))

\* a dict of three members inserted in descending order of their key texts,
\* one key a number, was encoded
C13_Witness ==
    /\ op = "encode" /\ hook = NoHooks /\ res.st = "ok"
    /\ arg.obj = VDict(<<<<VStr(T(<<"b">>)), VInt(1)>>, <<VStr(T(<<"a">>)), VInt(1)>>,
                        <<VInt(10), VStr(T(<<"a">>))>>>>)

----------------------------------------------------------------------------
(* Encoding lists and dicts: the layout of the text *)

\* The number of items of a list or dict, 0 for any other value
ItemCount(v) ==
    IF v.t = "list" THEN Len(v.items) ELSE IF v.t = "dict" THEN Len(v.pairs) ELSE 0

RECURSIVE OutsideStrings(_, _, _)
\* The characters of the JSON text from index i on that stand outside the
\* string literals, instr telling whether index i is inside one
OutsideStrings(text, i, instr) ==
    IF i > Len(text) THEN <<>>
    ELSE IF instr THEN
        IF text[i] = O("\\") THEN OutsideStrings(text, i + 2, TRUE)
        ELSE OutsideStrings(text, i + 1, text[i] # O("\""))
    ELSE IF text[i] = O("\"") THEN OutsideStrings(text, i + 1, TRUE)
    ELSE <<text[i]>> \o OutsideStrings(text, i + 1, FALSE)

\* Whether the text of a list or dict at nesting level 0, encoded with
\* compactly=False, has a line feed and two spaces before its first item and a
\* line feed before its closing bracket
FirstItemOnNewLine(text) ==
    /\ Len(text) >= 7
    /\ text[2] = O("LF") /\ text[3] = O(" ") /\ text[4] = O(" ") /\ text[5] # O(" ")
    /\ text[Len(text) - 2] = O("LF")
    /\ text[Len(text) - 1] \in {O("]"), O("}")}

\* C14: with no hooks and compactly=False, in the text of a list or dict with
\* more than one item a line feed and two spaces per nesting level stand
\* before the first item and a line feed before the closing bracket (stated
\* for the outermost list or dict); with compactly=True the text holds no
\* whitespace outside its string literals.
C14_PrettyLayout ==
    (op = "encode" /\ hook = NoHooks /\ res.st = "ok") =>
        /\ (~compactly /\ ItemCount(arg.obj) > 1) => FirstItemOnNewLine(res.val.s)
        /\ compactly =>
              \A k \in DOMAIN OutsideStrings(res.val.s, 1, FALSE) :
                  ~In(OutsideStrings(res.val.s, 1, FALSE)[k], <<" ", "LF", "TAB", "CR">>)

----------------------------------------------------------------------------
(* The module's encode function *)

\* A byte string
VBytes(bs) == [t |-> "bytes", b |-> bs]

\* The codec that helpers.lookup_codec finds for the encoding argument,
\* by its name: None for no encoding argument, NoCodec for a name that no
\* codec has.  The codecs of the model are ascii, iso8859-1 (latin-1) and utf-8.
NoCodec == "no_such_codec"
Codecs == {"ascii", "iso8859-1", "utf-8"}

\* The UTF-8 bytes of the character cord, which is not a surrogate
utf8_encode_char(cord) ==
    IF cord < 128 THEN <<cord>>
    ELSE IF cord < 2048 THEN <<192 + (cord \div 64), 128 + (cord % 64)>>
    ELSE IF cord < 65536
    THEN <<224 + (cord \div 4096), 128 + ((cord \div 64) % 64), 128 + (cord % 64)>>
    ELSE <<240 + (cord \div 262144), 128 + ((cord \div 4096) % 64),
           128 + ((cord \div 64) % 64), 128 + (cord % 64)>>

\* cdk.encode(unitxt) for the codec named name: [st, val]
codec_encode(name, unitxt) ==
    IF name = "utf-8" THEN
        IF \E k \in 1..Len(unitxt) : category(unitxt[k]) = "Cs"
        THEN [st |-> "UnicodeEncodeError", val |-> VNull]
        ELSE [st |-> "ok",
              val |-> VBytes(Concat([k \in 1..Len(unitxt) |-> utf8_encode_char(unitxt[k])]))]
    ELSE IF \E k \in 1..Len(unitxt) : unitxt[k] >= (IF name = "ascii" THEN 128 ELSE 256)
    THEN [st |-> "UnicodeEncodeError", val |-> VNull]
    ELSE [st |-> "ok", val |-> VBytes(unitxt)]

\* The escape_unicode that encode hands to JSON(): the user's function, or
\* what the codec cdk asks for
encode_escape_unicode(escape_unicode, cdk) ==
    IF escape_unicode \in EscapePredicates THEN escape_unicode
    ELSE IF bool(escape_unicode) \/ cdk = "None" \/ cdk = "ascii" THEN "ge_0x80"
    ELSE IF cdk = "iso8859-1" THEN "ge_0x100"
    ELSE "False"

RECURSIVE encode_keywords(_, _)
\* The loop over kw.items() of encode, a keyword argument being [name, value],
\* on the hooks hk of the instance: [st, hk]
encode_keywords(hk, kw) ==
    IF kw = <<>> THEN [st |-> "ok", hk |-> hk]
    ELSE IF Head(kw).name \notin all_hook_names THEN [st |-> "TypeError", hk |-> hk]
    ELSE IF Head(kw).value # NoneHook /\ Head(kw).value \notin Callables
    THEN [st |-> "ValueError", hk |-> hk]
    ELSE encode_keywords([hk EXCEPT ![Head(kw).name] = Head(kw).value], Tail(kw))

\* The final Unicode encoding of encode: [st, val, log]
encode_output(cdk, r) ==
    IF r.st # "ok" \/ cdk = "None" THEN Logged(r, r.log)
    ELSE Bind(codec_encode(cdk, r.val.s), LAMBDA output :
            IF output.st # "ok" THEN Logged(Raised("JSONEncodeError"), r.log)
            ELSE Logged(output, r.log))

\* encode(obj, strict, compactly, escape_unicode, encoding, **kw), cdk being
\* the codec of the encoding argument: [st, val, log]
encode(obj, strict, compact, escape_unicode, cdk, kw) ==
    IF cdk = NoCodec THEN Raised("JSONEncodeError")
    ELSE
    Bind(encode_keywords(NoHooks, kw), LAMBDA j :
        IF j.st # "ok" THEN Raised(j.st)
        ELSE encode_output(cdk,
                JSON_encode([allow |-> _set_strictness(strict), hook |-> j.hk,
                             compactly |-> compact,
                             escape_unicode |-> encode_escape_unicode(escape_unicode, cdk)],
                            obj, <<>>, 0, 0)))

\* demjson.encode(obj, strict=..., compactly=..., escape_unicode=...,
\* encoding=..., **kw).  The function builds an instance of its own and
\* leaves the others alone.
TopEncode(obj, strict, compact, escape_unicode, cdk, kw) ==
    /\ op' = "demjson.encode"
    /\ arg' = [obj |-> obj, strict |-> strict, compactly |-> compact,
               escape_unicode |-> escape_unicode, encoding |-> cdk, kw |-> kw]
    /\ res' = encode(obj, strict, compact, escape_unicode, cdk, kw)
    /\ ncall' = ncall + 1
    /\ UNCHANGED <<allow, hook, compactly, nconf>>

\* Strings with characters of each kind: ASCII, Latin-1, a Latin-1 space, a
\* format control and a line separator
TopEncodeStrings ==
    {VStr(T(<<"a">>)), VStr(T(<<"e'">>)), VStr(T(<<"a", "NBSP", "e'">>)),
     VStr(T(<<"ZWSP">>)), VStr(T(<<"LS", "a">>))}

TopEncodeValues ==
    TopEncodeStrings \cup {VInt(1)}
    \cup {VList(<<x, VInt(1)>>) : x \in TopEncodeStrings}
    \cup {VDict(<<<<x, y>>>>) : x \in TopEncodeStrings, y \in {VInt(1), VStr(T(<<"e'">>))}}

EncodeKeywordLists ==
    UNION {[1..n -> [name : {"encode_value", UnknownHook}, value : {"same", NotCallable}]] :
              n \in 0..MaxKeywords}

\* The specification of the module's encode: one call.
NextTopEncode ==
    /\ ncall = 0
    /\ \E obj \in TopEncodeValues, strict \in BOOLEAN, compact \in BOOLEAN,
          escape_unicode \in {"False", "True", "never", "always"},
          cdk \in Codecs \cup {"None", NoCodec}, kw \in EncodeKeywordLists :
            TopEncode(obj, strict, compact, escape_unicode, cdk, kw)

SpecTopEncode == InitDefault /\ [][NextTopEncode]_vars

\* C15: with the ascii codec and no hook keyword, encode succeeds on strings
\* that hold characters of U+0080 and above, and the bytes it returns are all
\* ASCII, whether escape_unicode is False, True or a function of the user.
C15_AsciiOutputEscaped ==
    (op = "demjson.encode" /\ arg.encoding = "ascii" /\ arg.kw = <<>>) =>
        /\ res.st = "ok"
        /\ res.val.t = "bytes"
        /\ \A k \in 1..Len(res.val.b) : res.val.b[k] < 128

----------------------------------------------------------------------------
(* The utf32 codec *)

\* A tuple
VTuple(xs) == [t |-> "tuple", items |-> xs]

\* utf32.BOM_UTF32_BE and utf32.BOM_UTF32_LE
BOM_UTF32_BE == <<0, 0, 254, 255>>
BOM_UTF32_LE == <<255, 254, 0, 0>>

\* obj.startswith(prefix) on byte strings
startswith(obj, prefix) ==
    Len(obj) >= Len(prefix) /\ SubSeq(obj, 1, Len(prefix)) = prefix

\* struct.pack('>L', n) and struct.pack('<L', n)
pack(big_endian, n) ==
    IF big_endian
    THEN <<n \div 16777216, (n \div 65536) % 256, (n \div 256) % 256, n % 256>>
    ELSE <<n % 256, (n \div 256) % 256, (n \div 65536) % 256, n \div 16777216>>

\* struct.unpack('>L', seq)[0] and struct.unpack('<L', seq)[0].  A unit of
\* 2^31 or more stands as 2^31 - 1: both are beyond sys.maxunicode, which is
\* all the codecs ask of them on the inputs of the specifications.
unpack(big_endian, seq) ==
    IF seq[IF big_endian THEN 1 ELSE 4] >= 128 THEN 2147483647
    ELSE IF big_endian
    THEN ((seq[1] * 256 + seq[2]) * 256 + seq[3]) * 256 + seq[4]
    ELSE ((seq[4] * 256 + seq[3]) * 256 + seq[2]) * 256 + seq[1]

\* The host: sys.byteorder and sys.maxunicode, which the codec reads
Hosts == [byteorder : {"little", "big"}, maxunicode : {65535, 1114111}]

\* The endianness argument, by the upper-case first character of the word
\* that is passed, or None
Endiannesses == {"None", "B", "L", ">", "<", "X"}

RECURSIVE utf32_encode_loop(_, _, _, _, _)
\* The loop of utf32.encode over the characters of obj from pos on: [st, out]
utf32_encode_loop(obj, errors, big_endian, pos, out) ==
    IF pos > Len(obj) THEN [st |-> "ok", out |-> out]
    ELSE IF obj[pos] >= 55296 /\ obj[pos] <= 57343 /\ errors \notin {"ignore", "replace"}
    THEN [st |-> "UnicodeEncodeError", out |-> <<>>]
    ELSE utf32_encode_loop(obj, errors, big_endian, pos + 1,
            out \o pack(big_endian,
                        IF obj[pos] >= 55296 /\ obj[pos] <= 57343 /\ errors = "replace"
                        THEN 65533 ELSE obj[pos]))

\* utf32.encode(obj, errors, endianness, include_bom) on the host:
\* [st, val], val being (bytes, num_chars)
utf32_encode(host, obj, errors, endianness, include_bom) ==
    Bind(IF endianness = "None" THEN (IF host.byteorder = "big" THEN "B" ELSE "L")
         ELSE endianness, LAMBDA e :
    IF e \notin {"B", ">", "L", "<"} THEN Raised("ValueError")
    ELSE
    Bind(utf32_encode_loop(obj, errors, e \in {"B", ">"}, 1,
            IF ~include_bom THEN <<>>
            ELSE IF e \in {"B", ">"} THEN BOM_UTF32_BE ELSE BOM_UTF32_LE), LAMBDA r :
        IF r.st # "ok" THEN Raised(r.st)
        ELSE Returned(VTuple(<<VBytes(r.out),
                               VInt(Len(obj) + (IF include_bom THEN 1 ELSE 0))>>))))

\* '%x' % n, at least width characters wide
RECURSIVE HexText(_, _)
HexText(n, width) ==
    IF n < 16 /\ width <= 1 THEN <<HexDigit(n)>>
    ELSE Append(HexText(n \div 16, width - 1), HexDigit(n % 16))

\* What utf32.decode appends for the unit n
utf32_decode_unit(host, errors, n) ==
    IF n > host.maxunicode \/ (n >= 55296 /\ n <= 57343) THEN
        IF errors = "replace" THEN <<65533>>
        ELSE IF errors = "backslashreplace" THEN
            IF n > 65535 THEN <<92, 117>> \o HexText(n, 4)
            ELSE <<92, 85>> \o HexText(n, 8)
        ELSE IF errors = "xmlcharrefreplace" THEN <<38, 35>> \o NatText(n) \o <<59>>
        ELSE <<>>
    ELSE <<n>>

RECURSIVE utf32_decode_loop(_, _, _, _, _, _)
\* The loop of utf32.decode over the units of obj from index i (0-based) on:
\* [st, out]
utf32_decode_loop(host, obj, errors, big_endian, i, chars) ==
    IF i >= Len(obj) THEN [st |-> "ok", out |-> chars]
    ELSE
    Bind(unpack(big_endian, Slice(obj, i, i + 4)), LAMBDA n :
        IF (n > host.maxunicode \/ (n >= 55296 /\ n <= 57343)) /\ errors = "strict"
        THEN [st |-> "UnicodeDecodeError", out |-> <<>>]
        ELSE utf32_decode_loop(host, obj, errors, big_endian, i + 4,
                               chars \o utf32_decode_unit(host, errors, n)))

\* utf32.decode(obj, errors, endianness) on the host: [st, val], val being
\* (unicode, num_bytes)
utf32_decode(host, obj, errors, endianness) ==
    Bind(IF startswith(obj, BOM_UTF32_BE) THEN "B"
         ELSE IF startswith(obj, BOM_UTF32_LE) THEN "L" ELSE "None", LAMBDA bom_endianness :
    Bind(IF bom_endianness = "None" THEN 0 ELSE 4, LAMBDA start :
    IF endianness # "None" /\ bom_endianness # "None" /\ endianness # bom_endianness
    THEN Raised("UnicodeDecodeError")
    ELSE IF (Len(obj) - start) % 4 # 0 THEN Raised("UnicodeDecodeError")
    ELSE
    Bind(IF endianness # "None" THEN endianness
         ELSE IF bom_endianness # "None" THEN bom_endianness
         ELSE IF host.byteorder = "big" THEN "B" ELSE "L", LAMBDA e :
    Bind(utf32_decode_loop(host, obj, errors, e = "B", start, <<>>), LAMBDA r :
        IF r.st # "ok" THEN Raised(r.st)
        ELSE Returned(VTuple(<<VStr(r.out), VInt(Len(obj))>>))))))

\* utf32.encode(obj, errors=..., endianness=..., include_bom=...) on a host
Utf32Encode(host, obj, errors, endianness, include_bom) ==
    /\ op' = "utf32.encode"
    /\ arg' = [host |-> host, obj |-> obj, errors |-> errors, endianness |-> endianness,
               include_bom |-> include_bom]
    /\ res' = utf32_encode(host, obj, errors, endianness, include_bom)
    /\ ncall' = ncall + 1
    /\ UNCHANGED <<allow, hook, compactly, nconf>>

\* utf32.decode(obj, errors=..., endianness=...) on a host
Utf32Decode(host, obj, errors, endianness) ==
    /\ op' = "utf32.decode"
    /\ arg' = [host |-> host, obj |-> obj, errors |-> errors, endianness |-> endianness]
    /\ res' = utf32_decode(host, obj, errors, endianness)
    /\ ncall' = ncall + 1
    /\ UNCHANGED <<allow, hook, compactly, nconf>>

MaxUnits == 2

\* The characters that the codec specification encodes: ASCII, a high and a
\* low surrogate, and one beyond the Basic Multilingual Plane
Utf32Chars == {O("\""), O("a"), O("HIGH"), O("LOW"), O("SMILE")}

Utf32Strings == UNION {[1..n -> Utf32Chars] : n \in 0..MaxUnits}

\* Four-byte units, big-endian and little-endian, of a quote, of a surrogate
\* and of 0x110000, and a lone byte
Utf32Units ==
    {pack(e, n) : e \in BOOLEAN, n \in {O("\""), O("HIGH"), 1114112, O("SMILE")}}

\* Byte strings: a byte order mark or none, then up to MaxUnits units, then
\* a lone byte or none
Utf32Bytes ==
    {(bom \o Concat(us)) \o last :
        bom \in {<<>>, BOM_UTF32_BE, BOM_UTF32_LE},
        us \in UNION {[1..n -> Utf32Units] : n \in 0..MaxUnits},
        last \in {<<>>, <<0>>}}

ErrorPolicies == {"strict", "ignore", "replace", "backslashreplace", "xmlcharrefreplace"}

\* The codec specification: one call of utf32.encode, on a string that the
\* host can hold, or of utf32.decode.
NextUtf32 ==
    \/ /\ ncall = 0
       /\ \E host \in Hosts, obj \in Utf32Strings, errors \in ErrorPolicies,
             endianness \in Endiannesses, include_bom \in BOOLEAN :
               /\ \A i \in 1..Len(obj) : obj[i] <= host.maxunicode
               /\ Utf32Encode(host, obj, errors, endianness, include_bom)
    \/ /\ ncall = 0
       /\ \E host \in Hosts, obj \in Utf32Bytes, errors \in ErrorPolicies,
             endianness \in Endiannesses :
               Utf32Decode(host, obj, errors, endianness)

SpecUtf32 == InitDefault /\ [][NextUtf32]_vars

\* The byte order mark that obj starts with: "B", "L" or "None"
BomOf(obj) ==
    IF startswith(obj, BOM_UTF32_BE) THEN "B"
    ELSE IF startswith(obj, BOM_UTF32_LE) THEN "L" ELSE "None"

\* The result of reading the units of a.obj after its byte order mark in the
\* given byte order
ReadUnits(a, big_endian) ==
    Bind(utf32_decode_loop(a.host, a.obj, a.errors, big_endian,
                           IF BomOf(a.obj) = "None" THEN 0 ELSE 4, <<>>), LAMBDA r :
        IF r.st # "ok" THEN Raised(r.st)
        ELSE Returned(VTuple(<<VStr(r.out), VInt(Len(a.obj))>>)))

\* C16: utf32.decode of bytes without a byte order mark and without an
\* endianness argument reads every four-byte unit as big-endian, whatever the
\* byte order of the host; with a byte order mark and no endianness argument
\* the units are read in the order of the mark; an endianness argument of
\* big or little that contradicts the mark is an error; bytes whose length
\* after the mark is not a multiple of four are refused.
C16_Utf32DecodeByteOrder ==
    op = "utf32.decode" =>
        IF (Len(arg.obj) - (IF BomOf(arg.obj) = "None" THEN 0 ELSE 4)) % 4 # 0
        THEN res.st = "UnicodeDecodeError"
        ELSE IF arg.endianness = "None"
        THEN res = ReadUnits(arg, BomOf(arg.obj) \in {"B", "None"})
        ELSE (BomOf(arg.obj) # "None" /\ arg.endianness \in {"B", "L"}
              /\ arg.endianness # BomOf(arg.obj)) => res.st = "UnicodeDecodeError"

\* C16 without its first part: the byte order mark is used, a contradicting
\* endianness argument is an error and a length that is not a multiple of
\* four is refused.
C16_MarkAndLength ==
    op = "utf32.decode" =>
        IF (Len(arg.obj) - (IF BomOf(arg.obj) = "None" THEN 0 ELSE 4)) % 4 # 0
        THEN res.st = "UnicodeDecodeError"
        ELSE IF arg.endianness = "None" /\ BomOf(arg.obj) # "None"
        THEN res = ReadUnits(arg, BomOf(arg.obj) = "B")
        ELSE (BomOf(arg.obj) # "None" /\ arg.endianness \in {"B", "L"}
              /\ arg.endianness # BomOf(arg.obj)) => res.st = "UnicodeDecodeError"

IsSurrogate(n) == n >= 55296 /\ n <= 57343

\* The four-byte units of a byte string, read in the given byte order
RECURSIVE UnitsOf(_, _)
UnitsOf(bs, big_endian) ==
    IF Len(bs) < 4 THEN <<>>
    ELSE <<unpack(big_endian, SubSeq(bs, 1, 4))>> \o UnitsOf(SubSeq(bs, 5, Len(bs)), big_endian)

\* seq with every surrogate left out (with = <<>>) or replaced
RECURSIVE WithoutSurrogates(_, _)
WithoutSurrogates(seq, with) ==
    IF seq = <<>> THEN <<>>
    ELSE (IF IsSurrogate(Head(seq)) THEN with ELSE <<Head(seq)>>)
         \o WithoutSurrogates(Tail(seq), with)

\* C17, encoding: the bytes that utf32.encode returns hold no four-byte unit
\* in D800..DFFF; of a string with a surrogate, under 'strict' the call fails,
\* under 'ignore' the bytes are those of the string without its surrogates,
\* under 'replace' those of the string with U+FFFD in their place.
C17_EncodeNoSurrogate ==
    (op = "utf32.encode" /\ arg.endianness \in {"B", "L"} /\ ~arg.include_bom) =>
        /\ res.st = "ok" =>
            \A i \in 1..Len(UnitsOf(res.val.items[1].b, arg.endianness = "B")) :
                ~IsSurrogate(UnitsOf(res.val.items[1].b, arg.endianness = "B")[i])
        /\ (\E i \in 1..Len(arg.obj) : IsSurrogate(arg.obj[i])) =>
            CASE arg.errors = "strict" -> res.st = "UnicodeEncodeError"
              [] arg.errors = "ignore" ->
                    /\ res.st = "ok"
                    /\ UnitsOf(res.val.items[1].b, arg.endianness = "B")
                         = WithoutSurrogates(arg.obj, <<>>)
              [] arg.errors = "replace" ->
                    /\ res.st = "ok"
                    /\ UnitsOf(res.val.items[1].b, arg.endianness = "B")
                         = WithoutSurrogates(arg.obj, <<65533>>)
              [] OTHER -> TRUE

\* C17, decoding: the string that utf32.decode returns holds no surrogate; of
\* bytes with a surrogate unit, under 'strict' the call fails, under 'ignore'
\* the surrogate is left out, under 'replace' it becomes U+FFFD.
C17_DecodeNoSurrogate ==
    (op = "utf32.decode" /\ arg.endianness \in {"B", "L"} /\ BomOf(arg.obj) = "None"
        /\ Len(arg.obj) % 4 = 0
        /\ \A i \in 1..Len(UnitsOf(arg.obj, arg.endianness = "B")) :
              UnitsOf(arg.obj, arg.endianness = "B")[i] <= arg.host.maxunicode) =>
        /\ res.st = "ok" =>
            \A i \in 1..Len(res.val.items[1].s) : ~IsSurrogate(res.val.items[1].s[i])
        /\ (\E i \in 1..Len(UnitsOf(arg.obj, arg.endianness = "B")) :
              IsSurrogate(UnitsOf(arg.obj, arg.endianness = "B")[i])) =>
            CASE arg.errors = "strict" -> res.st = "UnicodeDecodeError"
              [] arg.errors = "ignore" ->
                    /\ res.st = "ok"
                    /\ res.val.items[1].s
                         = WithoutSurrogates(UnitsOf(arg.obj, arg.endianness = "B"), <<>>)
              [] arg.errors = "replace" ->
                    /\ res.st = "ok"
                    /\ res.val.items[1].s
                         = WithoutSurrogates(UnitsOf(arg.obj, arg.endianness = "B"), <<65533>>)
              [] OTHER -> TRUE

\* C17: the utf32 codec passes no surrogate, encoding or decoding, under any
\* errors policy: strict fails, ignore leaves the surrogate out, replace
\* gives U+FFFD.
C17_NoSurrogatePasses == C17_EncodeNoSurrogate /\ C17_DecodeNoSurrogate

----------------------------------------------------------------------------
(* The module's decode function, on a byte string *)

\* codecs.BOM_UTF16_LE and codecs.BOM_UTF16_BE
BOM_UTF16_LE == <<255, 254>>
BOM_UTF16_BE == <<254, 255>>

\* helpers.auto_detect_encoding(s): [st, encoding]
auto_detect_encoding(s) ==
    IF s = <<>> THEN [st |-> "ok", encoding |-> "utf-8"]
    ELSE IF startswith(s, BOM_UTF32_LE) THEN [st |-> "ok", encoding |-> "utf-32le"]
    ELSE IF startswith(s, BOM_UTF32_BE) THEN [st |-> "ok", encoding |-> "utf-32be"]
    ELSE IF startswith(s, BOM_UTF16_LE) THEN [st |-> "ok", encoding |-> "utf-16le"]
    ELSE IF startswith(s, BOM_UTF16_BE) THEN [st |-> "ok", encoding |-> "utf-16be"]
    ELSE IF Len(s) >= 4 /\ s[1] = 0 /\ s[2] = 0 /\ s[3] = 0 /\ s[4] # 0
    THEN [st |-> "ok", encoding |-> "utf-32be"]
    ELSE IF Len(s) >= 4 /\ s[1] # 0 /\ s[2] = 0 /\ s[3] = 0 /\ s[4] = 0 /\ s[Len(s)] = 0
    THEN [st |-> "ok", encoding |-> "utf-32le"]
    ELSE IF Len(s) >= 2 /\ s[1] = 0 /\ s[2] # 0
    THEN [st |-> "ok", encoding |-> "utf-16be"]
    ELSE IF Len(s) >= 2 /\ s[1] # 0 /\ s[2] = 0 /\ s[Len(s)] = 0
    THEN [st |-> "ok", encoding |-> "utf-16le"]
    ELSE IF s[1] >= O("TAB") /\ s[1] <= 127 THEN [st |-> "ok", encoding |-> "utf8"]
    ELSE [st |-> "JSONDecodeError", encoding |-> ""]

\* The names that codecs.lookup knows, of those the model passes, and the
\* name that only utf32.lookup knows
StandardCodecs == {"utf-8", "utf8", "utf-16le", "utf-16be", "utf-32le", "utf-32be"}
CustomCodecs == {"ucs4"}

\* helpers.lookup_codec(encoding): the codec, by its name, or NoCodec
lookup_codec(encoding) ==
    IF encoding \in StandardCodecs \cup CustomCodecs THEN encoding ELSE NoCodec

\* A continuation byte of UTF-8
IsContinuation(s, k) == Len(s) >= k /\ s[k] >= 128 /\ s[k] <= 191

RECURSIVE utf8_decode(_, _)
\* The utf-8 codec of Python 2 on the bytes s, strict: [st, out]
utf8_decode(s, chars) ==
    IF s = <<>> THEN [st |-> "ok", out |-> chars]
    ELSE IF s[1] < 128 THEN utf8_decode(Tail(s), Append(chars, s[1]))
    ELSE IF s[1] >= 194 /\ s[1] <= 223 /\ IsContinuation(s, 2)
    THEN utf8_decode(SubSeq(s, 3, Len(s)),
                     Append(chars, (s[1] - 192) * 64 + (s[2] - 128)))
    ELSE IF s[1] >= 224 /\ s[1] <= 239 /\ IsContinuation(s, 2) /\ IsContinuation(s, 3)
            /\ (s[1] > 224 \/ s[2] >= 160)
    THEN utf8_decode(SubSeq(s, 4, Len(s)),
                     Append(chars, ((s[1] - 224) * 64 + (s[2] - 128)) * 64 + (s[3] - 128)))
    ELSE IF s[1] >= 240 /\ s[1] <= 244 /\ IsContinuation(s, 2) /\ IsContinuation(s, 3)
            /\ IsContinuation(s, 4) /\ (s[1] > 240 \/ s[2] >= 144)
            /\ (s[1] < 244 \/ s[2] <= 143)
    THEN utf8_decode(SubSeq(s, 5, Len(s)),
                     Append(chars, (((s[1] - 240) * 64 + (s[2] - 128)) * 64
                                    + (s[3] - 128)) * 64 + (s[4] - 128)))
    ELSE [st |-> "UnicodeDecodeError", out |-> <<>>]

\* The two-byte unit of s at byte k
Unit16(s, k, big_endian) ==
    IF big_endian THEN s[k] * 256 + s[k + 1] ELSE s[k + 1] * 256 + s[k]

RECURSIVE utf16_decode(_, _, _)
\* The utf-16le and utf-16be codecs of Python 2 on the bytes s, strict: [st, out]
utf16_decode(s, big_endian, chars) ==
    IF s = <<>> THEN [st |-> "ok", out |-> chars]
    ELSE IF Len(s) < 2 THEN [st |-> "UnicodeDecodeError", out |-> <<>>]
    ELSE IF ~IsSurrogate(Unit16(s, 1, big_endian))
    THEN utf16_decode(SubSeq(s, 3, Len(s)), big_endian,
                      Append(chars, Unit16(s, 1, big_endian)))
    ELSE IF Unit16(s, 1, big_endian) <= 56319 /\ Len(s) >= 4
            /\ Unit16(s, 3, big_endian) >= 56320 /\ Unit16(s, 3, big_endian) <= 57343
    THEN utf16_decode(SubSeq(s, 5, Len(s)), big_endian,
                      Append(chars, 65536 + (Unit16(s, 1, big_endian) - 55296) * 1024
                                          + (Unit16(s, 3, big_endian) - 56320)))
    ELSE [st |-> "UnicodeDecodeError", out |-> <<>>]

RECURSIVE utf32_std_decode(_, _, _)
\* The utf-32le and utf-32be codecs of Python 2 on the bytes s, strict: [st, out]
utf32_std_decode(s, big_endian, chars) ==
    IF s = <<>> THEN [st |-> "ok", out |-> chars]
    ELSE IF Len(s) < 4 THEN [st |-> "UnicodeDecodeError", out |-> <<>>]
    ELSE IF s[IF big_endian THEN 1 ELSE 4] # 0 \/ s[IF big_endian THEN 2 ELSE 3] > 16
    THEN [st |-> "UnicodeDecodeError", out |-> <<>>]
    ELSE utf32_std_decode(SubSeq(s, 5, Len(s)), big_endian,
                          Append(chars, unpack(big_endian, SubSeq(s, 1, 4))))

\* cdk.decode(s, errors='strict') for the codec cdk on the host: [st, out]
codec_decode(host, cdk, s) ==
    IF cdk \in {"utf-8", "utf8"} THEN utf8_decode(s, <<>>)
    ELSE IF cdk \in {"utf-16le", "utf-16be"} THEN utf16_decode(s, cdk = "utf-16be", <<>>)
    ELSE IF cdk \in {"utf-32le", "utf-32be"} THEN utf32_std_decode(s, cdk = "utf-32be", <<>>)
    ELSE Bind(utf32_decode(host, s, "strict", "None"), LAMBDA r :
            [st |-> r.st, out |-> IF r.st = "ok" THEN r.val.items[1].s ELSE <<>>])

\* helpers.auto_unicode_decode(s) on the host: [st, out]
auto_unicode_decode(host, s) ==
    Bind(auto_detect_encoding(s), LAMBDA e :
        IF e.st # "ok" THEN [st |-> "undetermined", out |-> <<>>]
        ELSE codec_decode(host, lookup_codec(e.encoding), s))

\* The test of decode on the first two characters of the transcoded text:
\* TRUE when the text is refused as gibberish
gibberish(al, unitxt) ==
    /\ Len(unitxt) > 2
    /\ ~In(unitxt[1], <<"\"", "'">>)
    /\ \/ unitxt[1] < 32 \/ unitxt[1] > 127
       \/ unitxt[2] < 32 \/ unitxt[2] > 127
    /\ ~isws(al, unitxt[1]) /\ ~isws(al, unitxt[2])
    /\ \/ category(unitxt[1]) \notin {"Zs", "Zl", "Zp", "Cf"}
       \/ category(unitxt[2]) \notin {"Zs", "Zl", "Zp", "Cf"}

\* The conversion of the byte string txt to unicode in decode: [st, out],
\* where st names what is raised
decode_transcode(host, txt, encoding) ==
    IF encoding # "None" /\ lookup_codec(encoding) = NoCodec THEN [st |-> "no codec", out |-> <<>>]
    ELSE IF encoding = "None" THEN auto_unicode_decode(host, txt)
    ELSE codec_decode(host, lookup_codec(encoding), txt)

\* decode(txt, encoding, strict, **kw) for a byte string txt: [st, val, log]
decode_bytes(host, txt, encoding, strict, kw) ==
    Bind(decode_keywords(_set_strictness(strict), NoHooks, kw), LAMBDA j :
        IF j.st # "ok" THEN Raised(j.st)
        ELSE
        Bind(decode_transcode(host, txt, encoding), LAMBDA u :
            IF u.st = "no codec"
            THEN RaisedWith("JSONDecodeError",
                            <<"no codec available for character encoding", encoding>>)
            ELSE IF u.st = "undetermined"
            THEN RaisedWith("JSONDecodeError",
                    <<"Can not determine the Unicode encoding for this JSON document">>)
            ELSE IF u.st = "UnicodeDecodeError"
            THEN RaisedWith("JSONDecodeError", <<"a Unicode decoding error occurred">>)
            ELSE IF gibberish(j.al, u.out)
            THEN RaisedWith("JSONDecodeError",
                    <<"the decoded string is gibberish, is the encoding correct?", encoding>>)
            ELSE Bind(JSON_decode(j.al, j.hk, u.out), LAMBDA r : Logged(r, r.log))))

\* demjson.decode(txt, encoding=..., strict=..., **kw) for a byte string txt,
\* on a host
TopDecodeBytes(host, txt, encoding, strict, kw) ==
    /\ op' = "demjson.decode"
    /\ arg' = [host |-> host, txt |-> VBytes(txt), encoding |-> encoding, strict |-> strict,
               kw |-> kw]
    /\ res' = decode_bytes(host, txt, encoding,
                           IF strict = "unset" THEN strict_default ELSE strict = "True", kw)
    /\ ncall' = ncall + 1
    /\ UNCHANGED <<allow, hook, compactly, nconf>>

\* The documents that the byte-string specification encodes
ByteDocs ==
    {T(<<"\"", "h", "i", "\"">>), T(<<"1">>), T(<<"[", "1", "]">>),
     T(<<" ", "\"", "h", "i", "\"">>), T(<<"{", "e'", ":", "1", "}">>),
     T(<<"e'", "e'">>), T(<<"e'", "e'", "1">>), T(<<"NBSP", "1">>),
     T(<<"\"", "e'", "\"">>)}

\* The encodings of the byte strings, each with its byte order mark
ByteOrderMarks ==
    [utf8 |-> <<239, 187, 191>>, utf16le |-> BOM_UTF16_LE, utf16be |-> BOM_UTF16_BE,
     utf32le |-> BOM_UTF32_LE, utf32be |-> BOM_UTF32_BE]

\* The bytes of the character c, of the Basic Multilingual Plane, in an encoding
EncodedChar(e, c) ==
    CASE e = "utf8" -> utf8_encode_char(c)
      [] e = "utf16le" -> <<c % 256, c \div 256>>
      [] e = "utf16be" -> <<c \div 256, c % 256>>
      [] e = "utf32le" -> pack(FALSE, c)
      [] e = "utf32be" -> pack(TRUE, c)

EncodedText(e, text) == Concat([k \in 1..Len(text) |-> EncodedChar(e, text[k])])

MaxCut == 1

\* Byte strings: an encoded document, with a byte order mark or none, whole
\* or without its last bytes
ByteTexts ==
    {SubSeq(bom \o EncodedText(e, d), 1, Len(bom \o EncodedText(e, d)) - cut) :
        <<e, bom>> \in {<<e, b>> : e \in DOMAIN ByteOrderMarks, b \in {<<>>}}
                       \cup {<<e, ByteOrderMarks[e]>> : e \in DOMAIN ByteOrderMarks},
        d \in ByteDocs, cut \in 0..MaxCut}

ByteKeywordLists ==
    {<<>>, <<[prefix |-> "allow_", name |-> "unicode_whitespace", value |-> "True"]>>,
     <<[prefix |-> "", name |-> UnknownHook, value |-> "wrap"]>>}

\* The byte-string specification: one call of demjson.decode on a byte
\* string, on a host whose unicode strings hold whole code points.
NextTopBytes ==
    ncall = 0 /\ \E host \in {h \in Hosts : h.maxunicode = 1114111}, txt \in ByteTexts,
                     encoding \in {"None", "utf-8", "utf-16be", "ucs4", NoCodec},
                     strict \in {"unset", "True", "False"}, kw \in ByteKeywordLists :
                        TopDecodeBytes(host, txt, encoding, strict, kw)

SpecTopBytes == InitDefault /\ [][NextTopBytes]_vars

\* The encoding of the UTF-32 or UTF-16 byte order mark that s starts with,
\* the UTF-32 marks tested first, or NoCodec
MarkedEncoding(s) ==
    IF startswith(s, BOM_UTF32_BE) THEN "utf-32be"
    ELSE IF startswith(s, BOM_UTF32_LE) THEN "utf-32le"
    ELSE IF startswith(s, BOM_UTF16_BE) THEN "utf-16be"
    ELSE IF startswith(s, BOM_UTF16_LE) THEN "utf-16le"
    ELSE NoCodec

\* The text that follows the byte order mark of s: [st, out]
AfterMark(host, s) ==
    codec_decode(host, MarkedEncoding(s),
                 SubSeq(s, (IF MarkedEncoding(s) \in {"utf-32be", "utf-32le"} THEN 5 ELSE 3),
                        Len(s)))

\* The strict argument that a call passed on
StrictOf(a) == IF a.strict = "unset" THEN strict_default ELSE a.strict = "True"

\* C18: decode of a byte string with no encoding argument that begins with a
\* UTF-32BE, UTF-32LE, UTF-16BE or UTF-16LE byte order mark reads the bytes
\* after the mark in the encoding of the mark and, when decode accepts the
\* text that follows the mark, returns the value of that text; 00 00 FE FF
\* and the UTF-32BE bytes of "hi" give the string hi.
C18_MarkedInputDecoded ==
    (op = "demjson.decode" /\ arg.encoding = "None" /\ MarkedEncoding(arg.txt.b) # NoCodec
        /\ AfterMark(arg.host, arg.txt.b).st = "ok"
        /\ decode(AfterMark(arg.host, arg.txt.b).out, StrictOf(arg), arg.kw).st = "ok") =>
        res = decode(AfterMark(arg.host, arg.txt.b).out, StrictOf(arg), arg.kw)

\* TRUE when r is the refusal of the text as gibberish
IsGibberishError(r) ==
    /\ r.st = "JSONDecodeError"
    /\ r.val.t = "exception"
    /\ r.val.args[1] = "the decoded string is gibberish, is the encoding correct?"

\* A character that is ASCII, whitespace, a quote or of category Zs, Zl, Zp
\* or Cf
SaneStart(c) == c <= 127 \/ category(c) \in {"Zs", "Zl", "Zp", "Cf"}

\* C19: a byte string whose keywords are accepted and whose transcoding
\* succeeds is refused as gibberish exactly when the text has two characters
\* or more and neither of its first two is ASCII, whitespace, a quote or of
\* category Zs, Zl, Zp or Cf; and a text that decode accepts as a unicode
\* string is not refused as gibberish.
C19_SanityPostcheck ==
    (op = "demjson.decode"
        /\ decode_keywords(_set_strictness(StrictOf(arg)), NoHooks, arg.kw).st = "ok"
        /\ decode_transcode(arg.host, arg.txt.b, arg.encoding).st = "ok") =>
        Bind(decode_transcode(arg.host, arg.txt.b, arg.encoding).out, LAMBDA unitxt :
            /\ IsGibberishError(res)
                 <=> (Len(unitxt) >= 2 /\ ~SaneStart(unitxt[1]) /\ ~SaneStart(unitxt[2]))
            /\ decode(unitxt, StrictOf(arg), arg.kw).st = "ok" => ~IsGibberishError(res))

\* The second half of C19 alone
C19_AcceptedTextNotRefused ==
    (op = "demjson.decode"
        /\ decode_transcode(arg.host, arg.txt.b, arg.encoding).st = "ok"
        /\ decode(decode_transcode(arg.host, arg.txt.b, arg.encoding).out,
                  StrictOf(arg), arg.kw).st = "ok") => ~IsGibberishError(res)

----------------------------------------------------------------------------
(* JSON.skipws *)

\* json.skipws(txt, i)
Skipws(txt, i) ==
    /\ op' = "skipws"
    /\ arg' = [txt |-> txt, i |-> i]
    /\ res' = Bind(skipws(allow, txt, i, Len(txt)), LAMBDA r :
                IF r.st # "ok" THEN Raised(r.st) ELSE Returned(VInt(r.i)))
    /\ ncall' = ncall + 1
    /\ UNCHANGED <<allow, hook, compactly, nconf>>

MaxSkipFragments == 3

\* Whitespace, comments whole and broken, and a value
SkipFragments ==
    {T(<<" ">>), T(<<"LF">>), T(<<"NBSP">>), T(<<"1">>),
     T(<<"/", "*", "a", "*", "/">>), T(<<"/", "/", "b">>), T(<<"/", "*">>), T(<<"/">>)}

SkipTexts == {Concat(fs) : fs \in UNION {[1..n -> SkipFragments] : n \in 0..MaxSkipFragments}}

\* The whitespace specification: an instance, strict or not, with up to
\* MaxAllow of the two behaviours that skipws reads switched, skips
\* whitespace once.
NextSkipws ==
    \/ nconf < MaxAllow /\ \E b \in {"comments", "unicode_whitespace"} : Allow(b)
    \/ nconf < MaxAllow /\ \E b \in {"comments", "unicode_whitespace"} : Prevent(b)
    \/ ncall = 0 /\ \E txt \in SkipTexts : \E i \in 0..Len(txt) : Skipws(txt, i)

SpecSkipws == Init /\ [][NextSkipws]_vars

RECURSIVE FirstOutside(_, _, _)
\* Scanning txt from index i with comments allowed: the index of the first
\* character that is neither whitespace nor in a comment, or the error of the
\* comment that is broken: [st, i]
FirstOutside(al, txt, i) ==
    IF i >= Len(txt) THEN [st |-> "ok", i |-> i]
    ELSE IF isws(al, At(txt, i)) THEN FirstOutside(al, txt, i + 1)
    ELSE Bind(skip_comment(al, txt, i), LAMBDA c :
            IF c.st # "ok" THEN [st |-> c.st, i |-> 0]
            ELSE IF c.j = i THEN [st |-> "ok", i |-> i]
            ELSE FirstOutside(al, txt, c.j))

\* C20: with comments allowed, skipws(txt, i) returns the index of the first
\* character from i on that is neither whitespace nor inside a comment,
\* whatever the sequence of whitespace runs and comments, two adjacent
\* comments included; a block comment that holds /* or does not end is a
\* JSONDecodeError, and a line comment may end with the text.
C20_SkipwsInterleaved ==
    (op = "skipws" /\ allow["comments"]) =>
        Bind(FirstOutside(allow, arg.txt, arg.i), LAMBDA f :
            IF f.st = "ok" THEN res = Returned(VInt(f.i)) ELSE res.st = "JSONDecodeError")

\* TRUE when a comment opens at index j of txt
CommentOpens(txt, j) ==
    j + 1 < Len(txt) /\ At(txt, j) = O("/") /\ In(At(txt, j + 1), <<"/", "*">>)

\* C20 on the texts where no comment ends directly before another comment
C20_SeparatedComments ==
    (op = "skipws" /\ allow["comments"]
        /\ \A k \in 0..(Len(arg.txt) - 1) :
              (CommentOpens(arg.txt, k) /\ skip_comment(allow, arg.txt, k).st = "ok")
                => ~CommentOpens(arg.txt, skip_comment(allow, arg.txt, k).j)) =>
        Bind(FirstOutside(allow, arg.txt, arg.i), LAMBDA f :
            IF f.st = "ok" THEN res = Returned(VInt(f.i)) ELSE res.st = "JSONDecodeError")

----------------------------------------------------------------------------
(* String literals: raw control characters and escapes *)

MaxLiteralFragments == 2

\* Raw characters: a letter, the four line terminators and two other
\* characters below U+0020
RawFragments ==
    {T(<<"a">>), T(<<"LF">>), T(<<"CR">>), T(<<"LS">>), T(<<"PS">>), T(<<"SOH">>),
     T(<<"TAB">>)}

\* The escapes of strict JSON, each with the character it stands for
StrictEscapes ==
    {<<T(<<"\\", "\"">>), O("\"")>>, <<T(<<"\\", "/">>), O("/")>>,
     <<T(<<"\\", "\\">>), O("\\")>>, <<T(<<"\\", "b">>), O("BS")>>,
     <<T(<<"\\", "f">>), O("FF")>>, <<T(<<"\\", "n">>), O("LF")>>,
     <<T(<<"\\", "r">>), O("CR")>>, <<T(<<"\\", "t">>), O("TAB")>>,
     <<T(<<"\\", "u", "0", "0", "4", "1">>), O("A")>>}

\* The escapes that js_string_escapes adds, each with its character
AddedEscapes ==
    {<<T(<<"\\", "'">>), O("'")>>, <<T(<<"\\", "v">>), O("VT")>>,
     <<T(<<"\\", "0">>), O("NUL")>>, <<T(<<"\\", "x", "4", "1">>), O("A")>>}

\* Escapes of neither table, each with the character after the backslash
UnknownEscapes == {<<T(<<"\\", "z">>), O("z")>>, <<T(<<"\\", "a">>), O("a")>>}

EscapeFragments == {e[1] : e \in StrictEscapes \cup AddedEscapes \cup UnknownEscapes}

\* A double-quoted literal around body
Quoted(body) == (<<O("\"")>> \o body) \o <<O("\"")>>

LiteralTexts ==
    {Quoted(body) : body \in Texts(RawFragments \cup EscapeFragments, MaxLiteralFragments)}

LiteralBehaviors == {"control_char_in_string", "js_string_escapes", "nonescape_characters"}

\* The literal specification: an instance with up to MaxAllow behaviours of
\* string literals switched decodes one double-quoted literal.
NextLiterals ==
    \/ nconf < MaxAllow /\ \E b \in LiteralBehaviors : Allow(b)
    \/ nconf < MaxAllow /\ \E b \in LiteralBehaviors : Prevent(b)
    \/ ncall = 0 /\ \E txt \in LiteralTexts : Decode(txt)

SpecLiterals == InitDefault /\ [][NextLiterals]_vars

\* The characters between the quotes of the literal txt
BodyOf(txt) == SubSeq(txt, 2, Len(txt) - 1)

\* TRUE when the literal txt holds raw characters only, none of them a quote
RawLiteral(txt) ==
    \A k \in 1..Len(BodyOf(txt)) : ~In(BodyOf(txt)[k], <<"\\", "\"">>)

\* C21: a string literal with a raw CR, LF, U+2028 or U+2029 is a
\* JSONDecodeError in every configuration; a literal with another raw
\* character below U+0020 is a JSONDecodeError when control_char_in_string is
\* prevented and decodes to its characters when it is allowed.
C21_RawLineTerminatorRejected ==
    (op = "decode" /\ RawLiteral(arg.txt)) =>
        IF \E k \in 1..Len(BodyOf(arg.txt)) :
              In(BodyOf(arg.txt)[k], <<"CR", "LF", "LS", "PS">>)
        THEN res.st = "JSONDecodeError"
        ELSE IF \E k \in 1..Len(BodyOf(arg.txt)) : BodyOf(arg.txt)[k] < 32
        THEN IF allow["control_char_in_string"]
             THEN res.st = "ok" /\ res.val = VStr(BodyOf(arg.txt))
             ELSE res.st = "JSONDecodeError"
        ELSE TRUE

\* C21 for the characters below U+0020 alone: raw CR and LF are always
\* refused, the others follow control_char_in_string.
C21_ControlCharacters ==
    (op = "decode" /\ RawLiteral(arg.txt)
        /\ \A k \in 1..Len(BodyOf(arg.txt)) : ~In(BodyOf(arg.txt)[k], <<"LS", "PS">>)) =>
        IF \E k \in 1..Len(BodyOf(arg.txt)) : In(BodyOf(arg.txt)[k], <<"CR", "LF">>)
        THEN res.st = "JSONDecodeError"
        ELSE IF \E k \in 1..Len(BodyOf(arg.txt)) : BodyOf(arg.txt)[k] < 32
        THEN IF allow["control_char_in_string"]
             THEN res.st = "ok" /\ res.val = VStr(BodyOf(arg.txt))
             ELSE res.st = "JSONDecodeError"
        ELSE TRUE

\* C22: with js_string_escapes allowed, a literal of one strict JSON escape
\* decodes to the character of that escape whatever nonescape_characters is,
\* a literal of one of \' \v \0 \xXX decodes to its character, and a
\* literal of an escape of neither table decodes to the character after the
\* backslash when nonescape_characters is allowed and is a JSONDecodeError
\* otherwise.
C22_JsEscapesOnlyAdd ==
    (op = "decode" /\ allow["js_string_escapes"]) =>
        /\ \A e \in StrictEscapes \cup AddedEscapes :
              arg.txt = Quoted(e[1]) => (res.st = "ok" /\ res.val = VStr(<<e[2]>>))
        /\ \A e \in UnknownEscapes :
              arg.txt = Quoted(e[1]) =>
                  IF allow["nonescape_characters"]
                  THEN res.st = "ok" /\ res.val = VStr(<<e[2]>>)
                  ELSE res.st = "JSONDecodeError"

\* C22 without the escape \/
C22_ExceptSolidus ==
    (op = "decode" /\ allow["js_string_escapes"] /\ arg.txt # Quoted(T(<<"\\", "/">>))) =>
        /\ \A e \in StrictEscapes \cup AddedEscapes :
              arg.txt = Quoted(e[1]) => (res.st = "ok" /\ res.val = VStr(<<e[2]>>))
        /\ \A e \in UnknownEscapes :
              arg.txt = Quoted(e[1]) =>
                  IF allow["nonescape_characters"]
                  THEN res.st = "ok" /\ res.val = VStr(<<e[2]>>)
                  ELSE res.st = "JSONDecodeError"

----------------------------------------------------------------------------
(* Number literals: validation *)

MaxValidationFragments == 4

ValidationFragments ==
    {T(<<"0">>), T(<<"1">>), T(<<"7">>), T(<<"8">>), T(<<".">>), T(<<"e">>), T(<<"+">>),
     T(<<"x">>)}

\* Whether a text holds a 7 or an 8 after an exponent marker (the model's
\* integers are bounded)
BigExponent(txt) ==
    \E k \in 1..Len(txt) :
        txt[k] = O("e") /\ \E j \in k + 1..Len(txt) : txt[j] \in {O("7"), O("8")}

ValidationTexts ==
    {txt \in Texts(ValidationFragments, MaxValidationFragments) :
        txt # <<>> /\ ~LongExponent(txt) /\ ~BigExponent(txt)}

\* The validation specification: an instance with up to MaxAllow of the
\* behaviours octal_numbers and hex_numbers switched decodes one text made of
\* the characters of numbers.
NextValidation ==
    \/ nconf < MaxAllow /\ \E b \in {"octal_numbers", "hex_numbers"} : Allow(b)
    \/ nconf < MaxAllow /\ \E b \in {"octal_numbers", "hex_numbers"} : Prevent(b)
    \/ ncall = 0 /\ \E txt \in ValidationTexts : Decode(txt)

SpecValidation == InitDefault /\ [][NextValidation]_vars

\* TRUE when the character k of txt exists and is a decimal digit
DigitAt(txt, k) == k >= 1 /\ k <= Len(txt) /\ isdigit(txt[k])

\* The value in base 8 of a text of octal digits
RECURSIVE Base8(_)
Base8(txt) ==
    IF txt = <<>> THEN 0 ELSE Base8(SubSeq(txt, 1, Len(txt) - 1)) * 8 + (txt[Len(txt)] - 48)

\* C23, decimal literals: a text without x in which a decimal point is not
\* followed by a digit, or an exponent marker is not followed by a digit
\* after an optional sign, is a JSONDecodeError; so is a text with a leading 0
\* followed by a digit while octal_numbers is prevented.
C23_DecimalValidation ==
    (op = "decode" /\ hook = NoHooks /\ \A k \in 1..Len(arg.txt) : arg.txt[k] # O("x")) =>
        /\ (\E k \in 1..Len(arg.txt) : arg.txt[k] = O(".") /\ ~DigitAt(arg.txt, k + 1))
              => res.st = "JSONDecodeError"
        /\ (\E k \in 1..Len(arg.txt) :
              /\ arg.txt[k] = O("e")
              /\ ~DigitAt(arg.txt, k + 1)
              /\ ~(k < Len(arg.txt) /\ arg.txt[k + 1] = O("+") /\ DigitAt(arg.txt, k + 2)))
              => res.st = "JSONDecodeError"
        /\ (~allow["octal_numbers"] /\ arg.txt[1] = O("0") /\ DigitAt(arg.txt, 2))
              => res.st = "JSONDecodeError"

\* The decimal literals of C23 are not accepted, whatever the error is
C23_DecimalRefused ==
    (op = "decode" /\ hook = NoHooks /\ \A k \in 1..Len(arg.txt) : arg.txt[k] # O("x")) =>
        /\ (\E k \in 1..Len(arg.txt) : arg.txt[k] = O(".") /\ ~DigitAt(arg.txt, k + 1))
              => res.st # "ok"
        /\ (\E k \in 1..Len(arg.txt) :
              /\ arg.txt[k] = O("e")
              /\ ~DigitAt(arg.txt, k + 1)
              /\ ~(k < Len(arg.txt) /\ arg.txt[k + 1] = O("+") /\ DigitAt(arg.txt, k + 2)))
              => res.st # "ok"
        /\ (~allow["octal_numbers"] /\ arg.txt[1] = O("0") /\ DigitAt(arg.txt, 2))
              => res.st # "ok"

\* C23, octal literals: with octal_numbers allowed a leading 0 followed only
\* by digits 0-7 is read in base 8, and a leading 0 followed by digits that
\* include 8 or 9 is a JSONDecodeError.
C23_OctalValidation ==
    (op = "decode" /\ hook = NoHooks /\ allow["octal_numbers"] /\ Len(arg.txt) >= 2
        /\ arg.txt[1] = O("0") /\ \A k \in 1..Len(arg.txt) : isdigit(arg.txt[k])) =>
        IF \A k \in 1..Len(arg.txt) : arg.txt[k] <= O("7")
        THEN res.st = "ok" /\ res.val = VInt(Base8(arg.txt))
        ELSE res.st = "JSONDecodeError"

\* C23, hex literals: with hex_numbers allowed a text that begins with 0x
\* and has no hex digit after it is a JSONDecodeError.
C23_HexValidation ==
    (op = "decode" /\ hook = NoHooks /\ allow["hex_numbers"] /\ Len(arg.txt) >= 2
        /\ arg.txt[1] = O("0") /\ arg.txt[2] = O("x")
        /\ (Len(arg.txt) = 2 \/ HexDigitValue(arg.txt[3]) < 0)) =>
        res.st = "JSONDecodeError"

\* C23: the number parser refuses a decimal point or an exponent marker
\* without a digit after it and a leading 0 followed by a digit (octal
\* prevented); reads a leading 0 and digits 0-7 in base 8 and refuses a
\* leading 0 and digits with 8 or 9 (octal allowed); and requires a hex digit
\* after 0x (hex allowed).
C23_NumberValidation == C23_DecimalValidation /\ C23_OctalValidation /\ C23_HexValidation

----------------------------------------------------------------------------
(* The hooks of composites *)

\* The number of characters c in txt
CountChar(txt, c) == Cardinality({k \in 1..Len(txt) : txt[k] = O(c)})

\* The number of calls of the hook h in a record of hook calls
CountCalls(log, h) == Cardinality({k \in 1..Len(log) : log[k].h = h})

\* In an accepted text the calls of the two composite hooks are by kind:
\* decode_object once for each object literal and with a dict, decode_array
\* once for each array literal and with a list, an uninstalled hook never
DispatchedByKind ==
    /\ \A k \in 1..Len(res.log) :
          /\ res.log[k].h = "decode_object" => res.log[k].a.t = "dict"
          /\ res.log[k].h = "decode_array" => res.log[k].a.t = "list"
    /\ CountCalls(res.log, "decode_object")
         = (IF has_hook(hook, "decode_object") THEN CountChar(arg.txt, "{") ELSE 0)
    /\ CountCalls(res.log, "decode_array")
         = (IF has_hook(hook, "decode_array") THEN CountChar(arg.txt, "[") ELSE 0)

\* C24: during one decode the decode_object hook is invoked exactly once for
\* each object literal and never for an array, and the decode_array hook
\* exactly once for each array literal and never for an object, whichever of
\* the two hooks are installed.
C24_CompositeHooksByKind ==
    (op = "decode" /\ res.st = "ok") => DispatchedByKind

\* C24 where decode_object is installed or decode_array is not
C24_ObjectHookInstalled ==
    (op = "decode" /\ res.st = "ok"
        /\ (has_hook(hook, "decode_object") \/ ~has_hook(hook, "decode_array"))) =>
        DispatchedByKind

----------------------------------------------------------------------------
(* The order of the decode hook calls *)

MaxOrderDepth == 2
MaxOrderWidth == 2

OrderLeaves == {T(<<"1", ".", "5">>), T(<<"\"", "a", "\"">>)}

\* The names of the members of the objects, in the order they are written
OrderKeys == <<"a", "b", "c">>

RECURSIVE Joined(_, _)
\* The texts ts[k..] with a comma before each
Joined(ts, k) ==
    IF k > Len(ts) THEN <<>> ELSE <<O(",")>> \o ts[k] \o Joined(ts, k + 1)

\* The array literal of the item texts ts
ArrayText(ts) ==
    IF ts = <<>> THEN T(<<"[", "]">>)
    ELSE <<O("[")>> \o ts[1] \o Joined(ts, 2) \o <<O("]")>>

\* The object literal whose k-th member has the name OrderKeys[k] and the
\* value text ts[k]
ObjectText(ts) ==
    IF ts = <<>> THEN T(<<"{", "}">>)
    ELSE Bind([k \in 1..Len(ts) |-> T(<<"\"", OrderKeys[k], "\"", ":">>) \o ts[k]], LAMBDA ms :
             <<O("{")>> \o ms[1] \o Joined(ms, 2) \o <<O("}")>>)

RECURSIVE OrderTextsOf(_)
\* The documents nested up to d deep: a leaf, or an array or an object of up
\* to MaxOrderWidth documents nested up to d - 1 deep
OrderTextsOf(d) ==
    IF d = 0 THEN OrderLeaves
    ELSE Bind(OrderTextsOf(d - 1), LAMBDA inner :
             inner
             \cup UNION {{ArrayText(ts) : ts \in [1..n -> inner]} : n \in 0..MaxOrderWidth}
             \cup UNION {{ObjectText(ts) : ts \in [1..n -> inner]} : n \in 0..MaxOrderWidth})

OrderTexts == OrderTextsOf(MaxOrderDepth)

\* The functions the order specification installs: one that wraps its
\* argument, and for decode_string also one that skips
OrderFunctions(h) == IF h = "decode_string" THEN {"skip", "wrap"} ELSE {"wrap"}

\* The order specification: an instance with up to MaxSetHook decode hooks
\* set decodes one nested document.
NextHookOrder ==
    \/ ncall = 0 /\ nconf < MaxSetHook
          /\ \E h \in DecodeHooks : \E f \in OrderFunctions(h) : SetHook(h, f)
    \/ ncall = 0 /\ \E txt \in OrderTexts : Decode(txt)

SpecHookOrder == InitDefault /\ [][NextHookOrder]_vars

RECURSIVE CallsOf(_, _)
RECURSIVE CallsOfItems(_, _, _)
RECURSIVE CallsOfPairs(_, _, _)

\* The hook calls that made the decoded value v, were each child's call before
\* its composite's and the children of a composite taken from left to right:
\* the value a hook returned holds the argument of its call (a wrapping hook),
\* and the argument holds the children as the composite's hook received them.
\* A string that no hook replaced was passed to decode_string if that hook
\* is installed (a skipping hook).
CallsOf(hk, v) ==
    IF v.t = "hooked" THEN
        (IF v.of.t = "list" THEN CallsOfItems(hk, v.of.items, 1)
         ELSE IF v.of.t = "dict" THEN CallsOfPairs(hk, v.of.pairs, 1)
         ELSE <<>>) \o <<HookCall(v.h, v.of)>>
    ELSE IF v.t = "list" THEN CallsOfItems(hk, v.items, 1)
    ELSE IF v.t = "dict" THEN CallsOfPairs(hk, v.pairs, 1)
    ELSE IF v.t = "str" /\ has_hook(hk, "decode_string") THEN <<HookCall("decode_string", v)>>
    ELSE <<>>

CallsOfItems(hk, xs, k) ==
    IF k > Len(xs) THEN <<>> ELSE CallsOf(hk, xs[k]) \o CallsOfItems(hk, xs, k + 1)

CallsOfPairs(hk, ps, k) ==
    IF k > Len(ps) THEN <<>>
    ELSE CallsOf(hk, ps[k][1]) \o CallsOf(hk, ps[k][2]) \o CallsOfPairs(hk, ps, k + 1)

\* Every installed hook leaves its trace in the decoded value: the hooks of
\* numbers and composites wrap, the hook of strings wraps or skips
TracedHooks(hk) ==
    \A h \in DecodeHooks \ {"decode_string"} : hk[h] \in {NoneHook, "wrap"}

\* C25: within one decode the hook call for a child value comes before the
\* hook call for its containing composite, the children of one composite are
\* processed from left to right, and a composite's hook receives its children
\* already replaced by the results of their hooks.
C25_HookOrder ==
    (op = "decode" /\ res.st = "ok" /\ TracedHooks(hook)) =>
        res.log = CallsOf(hook, res.val)

\* A composite with two hooked children in a hooked composite was decoded
C25_Witness ==
    /\ op = "decode" /\ res.st = "ok" /\ TracedHooks(hook)
    /\ res.val.t = "hooked" /\ res.val.of.t \in {"list", "dict"}
    /\ Len(res.log) >= 4
    /\ res.log # <<>> /\ res.log[1].h # res.log[Len(res.log)].h

----------------------------------------------------------------------------
(* Encoding with hooks *)

EncodeHooks == {"encode_value", "encode_dict_key"}

\* The values the hook specification encodes
EncodeHookAtoms == {VNull, VInt(1), VStr(T(<<"a">>))}

EncodeHookValues ==
    EncodeHookAtoms
    \cup {VList(<<>>), VList(<<VInt(1)>>), VList(<<VInt(1), VStr(T(<<"a">>))>>)}
    \cup {VDict(<<<<VStr(T(<<"a">>)), x>>>>) :
             x \in {VInt(1), VStr(T(<<"a">>)), VList(<<VInt(1)>>)}}
    \cup {VDict(<<<<VInt(1), VStr(T(<<"a">>))>>>>),
          VDict(<<<<VStr(T(<<"a">>)), VInt(1)>>, <<VStr(T(<<"b">>)), VStr(T(<<"a">>))>>>>)}

\* The encoding hook specification: an instance with up to MaxSetHook of the
\* hooks encode_value and encode_dict_key set encodes one value.
NextEncodeHooks ==
    \/ ncall = 0 /\ nconf < MaxSetHook
          /\ \E h \in EncodeHooks, f \in Callables : SetHook(h, f)
    \/ ncall = 0 /\ \E v \in EncodeHookValues : Encode(v)

SpecEncodeHooks == InitDefault /\ [][NextEncodeHooks]_vars

\* The encode ended, with a text or an error of the encoder or of a hook, and
\* the encode_value hook was called at most twice for a value that is no
\* container: once with the value, once after the one restart
RestartsBounded ==
    /\ res.st # "RuntimeError"
    /\ arg.obj \in EncodeHookAtoms => CountCalls(res.log, "encode_value") <= 2

\* C26: when the encode_value hook substitutes a value of a different
\* classification the pipeline restarts at most once for that value, so encode
\* terminates for every encode_value hook, one that returns a value of a
\* different classification on every invocation included.
C26_RestartsBounded ==
    op = "encode" => RestartsBounded

\* C26 for the hooks whose result is of the same classification when they are
\* called with their own result
C26_SettlingHooks ==
    (op = "encode" /\ hook["encode_value"] \notin {"flip", "tolist"}) => RestartsBounded

RECURSIVE ValueCount(_)
RECURSIVE ValueCountItems(_, _)
RECURSIVE ValueCountPairs(_, _)

\* The number of values encoded with v: v itself, the items of a list, the
\* keys and the values of a dict
ValueCount(v) ==
    IF v.t = "list" THEN 1 + ValueCountItems(v.items, 1)
    ELSE IF v.t = "dict" THEN 1 + ValueCountPairs(v.pairs, 1)
    ELSE 1

ValueCountItems(xs, k) ==
    IF k > Len(xs) THEN 0 ELSE ValueCount(xs[k]) + ValueCountItems(xs, k + 1)

ValueCountPairs(ps, k) ==
    IF k > Len(ps) THEN 0
    ELSE ValueCount(ps[k][1]) + ValueCount(ps[k][2]) + ValueCountPairs(ps, k + 1)

RECURSIVE HasMember(_)
\* Whether a dict with a member is encoded with v
HasMember(v) ==
    IF v.t = "list" THEN \E k \in 1..Len(v.items) : HasMember(v.items[k])
    ELSE v.t = "dict" /\ v.pairs # <<>>

\* With an encode_value hook that substitutes no value of another
\* classification (it skips, returns its argument, or adds "h" to a string)
\* the hook was called once for each value, and no emitted string has the
\* "h" of the hook twice
HookedOnce ==
    /\ CountCalls(res.log, "encode_value") = ValueCount(arg.obj)
    /\ hook["encode_value"] = "suffix" =>
          ~\E k \in 1..Len(res.val.s) - 1 : res.val.s[k] = O("h") /\ res.val.s[k + 1] = O("h")

\* C28: the encode_value hook is invoked exactly once for each encoded value,
\* object keys included: the key that is emitted is the result of a single
\* application of the hook (then of encode_dict_key), not of the hook applied
\* to its own result.
C28_ValueHookOnce ==
    (op = "encode" /\ res.st = "ok" /\ hook["encode_value"] \in {"skip", "same", "suffix"}) =>
        HookedOnce

\* C28 for the values that hold no object key
C28_ExceptKeys ==
    (op = "encode" /\ res.st = "ok" /\ hook["encode_value"] \in {"skip", "same", "suffix"}
        /\ ~HasMember(arg.obj)) => HookedOnce

----------------------------------------------------------------------------
(* The hook registry *)

MaxRegistry == 2

\* json.has_hook(hook_name)
HasHook(hook_name) ==
    /\ op' = "has_hook"
    /\ arg' = [hook_name |-> hook_name]
    /\ res' = Returned(VBool(has_hook(hook, hook_name)))
    /\ ncall' = ncall + 1
    /\ UNCHANGED <<allow, hook, compactly, nconf>>

\* json.call_hook(hook_name, value)
CallHook(hook_name, value) ==
    /\ op' = "call_hook"
    /\ arg' = [hook_name |-> hook_name, value |-> value]
    /\ res' = Bind(call_hook(hook, hook_name, value), LAMBDA r :
                  IF r.st = "ok" THEN Returned(r.val) ELSE Raised(r.st))
    /\ ncall' = ncall + 1
    /\ UNCHANGED <<allow, hook, compactly, nconf>>

\* The registry specification: an instance takes up to MaxRegistry calls of
\* set_hook, clear_hook and clear_all_hooks, with known and unknown names and
\* with a callable, None and an object that is neither, and then one call of
\* has_hook or call_hook.
NextRegistry ==
    \/ ncall = 0 /\ nconf < MaxRegistry
          /\ \E h \in all_hook_names \cup {UnknownHook}, f \in SpecFunctions : SetHook(h, f)
    \/ ncall = 0 /\ nconf < MaxRegistry
          /\ \E h \in all_hook_names \cup {UnknownHook} : ClearHook(h)
    \/ ncall = 0 /\ nconf < MaxRegistry /\ ClearAllHooks
    \/ ncall = 0 /\ \E h \in all_hook_names \cup {UnknownHook} : HasHook(h)
    \/ ncall = 0 /\ \E h \in all_hook_names \cup {UnknownHook} : CallHook(h, VInt(1))

SpecRegistry == InitDefault /\ [][NextRegistry]_vars

\* C27: calling an absent hook is a no-op: for every recognised hook name
\* whose callback is unset (never set, or cleared), call_hook(name, value)
\* raises no error and leaves the value untouched.
C27_AbsentHookNoOp ==
    (op = "call_hook" /\ arg.hook_name \in all_hook_names /\ hook[arg.hook_name] = NoneHook) =>
        (res.st = "ok" /\ res.val = arg.value)

\* call_hook with the name of an unset hook raises the hook error of its side
C27_AbsentHookRaises ==
    (op = "call_hook" /\ arg.hook_name \in all_hook_names /\ hook[arg.hook_name] = NoneHook) =>
        res.st = HookErrorClass(arg.hook_name)

\* Whether the hook h holds a callable in the registry hk
Installed(hk, h) == hk[h] \in Callables

\* The registry hk2 is hk but for the hook h
OthersUnchanged(hk, hk2, h) == \A g \in all_hook_names \ {h} : hk2[g] = hk[g]

\* C30: has_hook(h) is true exactly when the last successful set_hook on h
\* installed a callable and no clear_hook(h) or clear_all_hooks came after
\* it; a later set_hook replaces the earlier callback; set_hook and
\* clear_hook on h leave every other hook and every strictness behaviour
\* unchanged; a set_hook that fails (unknown name, or a function neither None
\* nor callable) leaves the whole registry unchanged.
C30_HookRegistry ==
    [][ /\ op' = "set_hook" =>
              /\ allow' = allow
              /\ IF arg'.hookname \in all_hook_names /\ arg'.function \in Callables \cup {NoneHook}
                 THEN /\ res'.st = "ok"
                      /\ hook'[arg'.hookname] = arg'.function
                      /\ has_hook(hook', arg'.hookname) <=> arg'.function \in Callables
                      /\ OthersUnchanged(hook, hook', arg'.hookname)
                 ELSE res'.st = "ValueError" /\ hook' = hook
        /\ op' = "clear_hook" =>
              /\ allow' = allow
              /\ IF arg'.hookname \in all_hook_names
                 THEN /\ res'.st = "ok"
                      /\ ~has_hook(hook', arg'.hookname)
                      /\ OthersUnchanged(hook, hook', arg'.hookname)
                 ELSE res'.st = "ValueError" /\ hook' = hook
        /\ op' = "clear_all_hooks" =>
              /\ allow' = allow
              /\ \A h \in all_hook_names : ~has_hook(hook', h)
        /\ op' = "has_hook" =>
              /\ hook' = hook /\ allow' = allow
              /\ res'.val = VBool(arg'.hook_name \in all_hook_names
                                    /\ Installed(hook, arg'.hook_name))
        /\ op' = "call_hook" => hook' = hook /\ allow' = allow ]_vars

\* A set_hook failed on an instance with a hook installed, which it kept
C30_Witness ==
    /\ op = "set_hook" /\ res.st = "ValueError" /\ arg.function = NotCallable
    /\ arg.hookname \in all_hook_names /\ Installed(hook, arg.hookname)

----------------------------------------------------------------------------
(* Number hooks and the strictness of numbers *)

MaxStrictFragments == 3

StrictFragments ==
    {T(<<"+">>), T(<<"-">>), T(<<"0">>), T(<<"1">>), T(<<".">>), T(<<"x">>),
     T(<<"N", "a", "N">>)}

StrictTexts == Texts(StrictFragments, MaxStrictFragments) \ {<<>>}

StrictBehaviors ==
    {"all_numeric_signs", "hex_numbers", "non_numbers", "initial_decimal_point",
     "octal_numbers"}

\* The number hook specification: an instance with up to MaxAllow behaviours
\* of number syntax switched and then up to MaxSetHook number hooks set, to
\* a function that skips or to one that wraps its argument, decodes one text
\* made of number fragments.
NextNumberHooks ==
    \/ ncall = 0 /\ nconf < MaxAllow /\ \E b \in StrictBehaviors : Allow(b)
    \/ ncall = 0 /\ nconf < MaxAllow /\ \E b \in StrictBehaviors : Prevent(b)
    \/ ncall = 0 /\ nconf < MaxSetHook
          /\ \E h \in {"decode_number", "decode_float"}, f \in {"skip", "wrap"} : SetHook(h, f)
    \/ ncall = 0 /\ \E txt \in StrictTexts : Decode(txt)

SpecNumberHooks == InitDefault /\ [][NextNumberHooks]_vars

\* Whether the instance with the behaviours al and no hook accepts txt
AcceptedUnhooked(al, txt) == JSON_decode(al, NoHooks, txt).st = "ok"

\* A text the instance refuses without hooks is refused with them
SameRefusals == ~AcceptedUnhooked(allow, arg.txt) => res.st # "ok"

\* C29: with a decode_number or decode_float hook installed the decoder
\* refuses the same number literals as without it, and the hook is called
\* only with the text of a literal that the strictness configuration accepts.
C29_StrictWithNumberHooks ==
    (op = "decode" /\ (has_hook(hook, "decode_number") \/ has_hook(hook, "decode_float"))) =>
        /\ SameRefusals
        /\ \A k \in 1..Len(res.log) : AcceptedUnhooked(allow, res.log[k].a.s)

\* C29's refusals for number hooks that raise JSONSkipHook on each call
C29_SkippingNumberHooks ==
    (op = "decode" /\ \A h \in {"decode_number", "decode_float"} : hook[h] \in {NoneHook, "skip"}) =>
        SameRefusals

====
